---- MODULE Spec2Model ----
(***************************************************************************)
(* A model of the multi-provider comparison code of llm-compare-analytics: *)
(* the provider adapters (OpenAIService, AnthropicService, OllamaService,  *)
(* GGUFService), the legacy ModelService and the ComparisonService         *)
(* orchestrator that fans one prompt out to the enabled adapters.          *)
(*                                                                         *)
(* JavaScript values are modelled as follows.  A number is a record        *)
(* [k, v]: k = "num" with the integer v, or k = "nan", "inf", "undef"      *)
(* (v = 0) for NaN, Infinity and undefined.  A string that may be          *)
(* undefined is a TLA+ string with the sentinel Undefined; an optional     *)
(* field that is absent holds the sentinel Absent.  A prompt is a sequence *)
(* of one-character strings.                                               *)
(***************************************************************************)
EXTENDS Integers, Sequences, FiniteSets, TLC

VARIABLES configs, services, run, legacy, adapter, validate, reentry, settings,
          connForm, dashboard

vars == <<configs, services, run, legacy, adapter, validate, reentry, settings,
          connForm, dashboard>>

\* the connection form and the dashboard page
pages == <<connForm, dashboard>>

others == <<validate, reentry, settings, pages>>

(***************************************************************************)
(* Bounds of the model.                                                    *)
(***************************************************************************)
MaxPerKind == 1
MaxConfigs == 2
\* connections the settings page creates
MaxConnections == 2

(***************************************************************************)
(* Sentinels and JavaScript numbers.                                       *)
(***************************************************************************)
Absent == "<absent>"
Undefined == "<undefined>"

Num(n) == [k |-> "num", v |-> n]
NaN == [k |-> "nan", v |-> 0]
Infinity == [k |-> "inf", v |-> 0]
UndefNum == [k |-> "undef", v |-> 0]

\* a property the object literal does not have
AbsentNum == [k |-> "absent", v |-> 0]

\* a * n for a JavaScript number a and a finite n: undefined * n is NaN
JsTimes(a, n) ==
    CASE a.k = "num" -> Num(a.v * n)
      [] a.k = "inf" -> IF n = 0 THEN NaN ELSE Infinity
      [] OTHER -> NaN

\* a + b of two JavaScript numbers
JsPlus(a, b) ==
    CASE a.k = "num" /\ b.k = "num" -> Num(a.v + b.v)
      [] a.k \in {"nan", "undef"} \/ b.k \in {"nan", "undef"} -> NaN
      [] OTHER -> Infinity

\* a / b of two JavaScript numbers, the quotient scaled by `scale` and
\* truncated: x / 0 is Infinity for x > 0 and NaN for x = 0, and an
\* undefined or NaN operand gives NaN.
JsDiv(a, b, scale) ==
    IF a.k \in {"nan", "undef"} \/ b.k \in {"nan", "undef"} THEN NaN
    ELSE IF b.k = "inf" THEN (IF a.k = "inf" THEN NaN ELSE Num(0))
    ELSE IF a.k = "inf" THEN Infinity
    ELSE IF b.v = 0 THEN (IF a.v = 0 THEN NaN ELSE Infinity)
    ELSE Num((a.v * scale) \div b.v)

(***************************************************************************)
(* Provider kinds.                                                         *)
(***************************************************************************)
Kinds == {"openai", "anthropic", "google", "ollama", "huggingface", "gguf"}

\* the keys of ComparisonService.services, in the order compareModels
\* walks them
ServiceKinds == <<"openai", "anthropic", "ollama", "gguf">>

ProviderLabel(kind) ==
    CASE kind = "openai" -> "OpenAI"
      [] kind = "anthropic" -> "Anthropic"
      [] kind = "ollama" -> "Ollama"
      [] kind = "gguf" -> "GGUF"
      [] kind = "huggingface" -> "HuggingFace"
      [] OTHER -> Absent

(***************************************************************************)
(* What the network answers to one fetch.  net = "fail": fetch rejects.    *)
(* Otherwise ok is response.ok and body says what response.json() gives:   *)
(*   "nojson"      the body is not JSON (json() rejects)                   *)
(*   "err_msg"     an error object carrying the provider's message         *)
(*   "err_none"    a JSON object without any error message                 *)
(*   "full"        the provider's success payload with every field         *)
(*   "no_envelope" success payload without the text envelope               *)
(*                 (choices / content[] / data[0])                         *)
(*   "no_text"     envelope present, the text leaf missing                 *)
(*   "no_usage"    the usage block missing                                 *)
(*   "no_counts"   usage block present, token counts / durations missing   *)
(* elapsed is the wall-clock time of the call in milliseconds, text the    *)
(* generated text and tokens the completion token count of the payload.    *)
(* For an Ollama payload tokens is eval_count, ptokens prompt_eval_count,  *)
(* elapsed eval_duration (in ms) and PromptEvalMs prompt_eval_duration.    *)
(***************************************************************************)
ElapsedChoices == {0, 500, 2000}
TextChoices == {"abcd"}
TokenChoices == {50}
PromptTokenChoices == {10}

MsgFetch == "Failed to fetch"
MsgSyntax == "Unexpected token in JSON"
MsgType == "Cannot read properties of undefined"
MsgProvider == "provider message"

\* prompt_eval_duration of an Ollama payload, in milliseconds
PromptEvalMs == 1000

\* tokens_per_second of a llama.cpp payload; 0 stands for "not provided"
TpsChoices == {0, 25}

NetFail == [net |-> "fail", ok |-> FALSE, body |-> "none", elapsed |-> 0,
            text |-> "", tokens |-> 0, ptokens |-> 0, tps |-> 0]

ErrBodies == {"nojson", "err_msg", "err_none"}

\* the fields the provider's success payload is expected to carry
MissingFieldBodies(kind) ==
    CASE kind = "openai" -> {"no_envelope", "no_text", "no_usage", "no_counts"}
      [] kind = "anthropic" -> {"no_envelope", "no_text"}
      [] kind = "ollama" -> {"no_text", "no_counts"}
      [] kind = "huggingface" -> {"no_envelope", "no_text"}
      [] OTHER -> {"no_text"}

HttpErrorReplies ==
    {[net |-> "ok", ok |-> FALSE, body |-> b, elapsed |-> 0,
      text |-> "", tokens |-> 0, ptokens |-> 0, tps |-> 0] : b \in ErrBodies}

OkReplies(kind) ==
    {[net |-> "ok", ok |-> TRUE, body |-> b, elapsed |-> e,
      text |-> t, tokens |-> n, ptokens |-> p, tps |-> s] :
        b \in {"full", "nojson"} \cup MissingFieldBodies(kind),
        e \in ElapsedChoices, t \in TextChoices, n \in TokenChoices,
        p \in PromptTokenChoices,
        s \in IF kind = "gguf" THEN TpsChoices ELSE {0}}

Replies(kind) == {NetFail} \cup HttpErrorReplies \cup OkReplies(kind)

\* the replies the calls of a comparison run are answered with: one of each
\* class (network failure, non-success status, unparsable body, payload
\* with a missing field, success)
RunElapsed == {2000}

RunReplies(kind) ==
    {NetFail}
      \cup {r \in HttpErrorReplies : r.body = "err_msg"}
      \cup {r \in OkReplies(kind) :
               /\ r.elapsed \in RunElapsed
               /\ r.tps = 0
               /\ r.body \in {"full", "nojson", "no_text"}}

\* the reply of the GGUF health probe: only response.ok is read
ProbeReplies == {NetFail} \cup
    {[net |-> "ok", ok |-> o, body |-> "none", elapsed |-> 0,
      text |-> "", tokens |-> 0, ptokens |-> 0, tps |-> 0] : o \in BOOLEAN}

\* the call failed: network failure, non-success status or malformed payload
CallFailed(reply) == reply.net = "fail" \/ ~reply.ok \/ reply.body # "full"

(***************************************************************************)
(* Prompts, as sequences of characters.                                    *)
(***************************************************************************)
Prompts == {<<>>, <<" ">>, <<"a", "b", "c", "d", "e">>}

RECURSIVE TrimStart(_)
TrimStart(s) == IF s # <<>> /\ Head(s) = " " THEN TrimStart(Tail(s)) ELSE s

RECURSIVE TrimEnd(_)
TrimEnd(s) ==
    IF s # <<>> /\ s[Len(s)] = " " THEN TrimEnd(SubSeq(s, 1, Len(s) - 1)) ELSE s

\* String.prototype.trim
Trim(s) == TrimEnd(TrimStart(s))

(***************************************************************************)
(* The outcome of an async adapter call: the promise resolves with a       *)
(* record or rejects with an error message.  A ModelResponse is            *)
(* [id, provider, text, metrics, error]; a record that lacks one of these  *)
(* fields holds Absent there.                                              *)
(***************************************************************************)
ZeroMetrics ==
    [responseTime |-> Num(0), tokensPerSecond |-> Num(0),
     totalTokens |-> AbsentNum, promptTokens |-> AbsentNum,
     completionTokens |-> AbsentNum, cost |-> AbsentNum]

ErrorResponse(id, provider, msg) ==
    [id |-> id, provider |-> provider, text |-> "",
     metrics |-> ZeroMetrics, error |-> msg]

Resolved(r) == [settled |-> "resolved", value |-> r, thrown |-> Absent]

Rejected(msg) ==
    [settled |-> "rejected",
     value |-> [id |-> Absent, provider |-> Absent, text |-> Absent,
                metrics |-> ZeroMetrics, error |-> Absent],
     thrown |-> msg]

\* an estimate that would round down
estimateRoundedDown(text) == Len(text) \div 4

\* Math.ceil(text.length / 4), the estimateTokenCount of GGUFService,
\* AnthropicService and OllamaService
estimateTokenCount(text) == (Len(text) + 3) \div 4

\* the modelName of a connection: undefined, a model of the price tables
\* or one that is in neither
ModelNames ==
    {Undefined, "gpt-4", "gpt-3.5-turbo", "claude-3-sonnet", "my-model"}

\* x || fallback for a string
OrElse(x, fallback) == IF x = Undefined \/ x = "" THEN fallback ELSE x

\* the prices in units of 0.0001 dollar per 1000 tokens; a cost is in
\* units of 0.0000001 dollar
modelCapabilities ==
    [m \in {"gpt-4", "gpt-4-turbo-preview", "gpt-3.5-turbo"} |->
        CASE m = "gpt-4" -> [inputCostPer1k |-> 300, outputCostPer1k |-> 600]
          [] m = "gpt-4-turbo-preview" ->
               [inputCostPer1k |-> 100, outputCostPer1k |-> 300]
          [] m = "gpt-3.5-turbo" ->
               [inputCostPer1k |-> 5, outputCostPer1k |-> 15]]

prices ==
    [m \in {"claude-3-opus", "claude-3-sonnet", "claude-2.1",
            "claude-instant-1.2"} |->
        CASE m = "claude-3-opus" -> 150
          [] m = "claude-3-sonnet" -> 30
          [] m = "claude-2.1" -> 80
          [] m = "claude-instant-1.2" -> 8]

\* OpenAIService.calculateCost
OpenAICalculateCost(promptTokens, completionTokens, model) ==
    LET capabilities == IF model \in DOMAIN modelCapabilities
                          THEN modelCapabilities[model]
                          ELSE modelCapabilities["gpt-4"]
    IN  JsPlus(JsTimes(promptTokens, capabilities.inputCostPer1k),
               JsTimes(completionTokens, capabilities.outputCostPer1k))

\* AnthropicService.calculateCost
AnthropicCalculateCost(totalTokens, model) ==
    LET pricePerToken == IF model \in DOMAIN prices
                           THEN prices[model] ELSE prices["claude-3-opus"]
    IN  JsTimes(totalTokens, pricePerToken)

\* the message of the Error thrown on a non-success status, where the
\* adapter falls back to `generic` when the body carries no message;
\* response.json() of a body that is not JSON throws a SyntaxError
HttpErrorMessage(reply, generic) ==
    CASE reply.body = "nojson" -> MsgSyntax
      [] reply.body = "err_msg" -> MsgProvider
      [] OTHER -> generic

\* OpenAIService.generateResponse
OpenAIGenerateResponse(id, model, prompt, reply) ==
    IF reply.net = "fail" THEN Resolved(ErrorResponse(id, "OpenAI", MsgFetch))
    ELSE IF ~reply.ok
      THEN Resolved(ErrorResponse(id, "OpenAI",
                                  HttpErrorMessage(reply, "OpenAI API error")))
    ELSE IF reply.body = "nojson"
      THEN Resolved(ErrorResponse(id, "OpenAI", MsgSyntax))
    ELSE IF reply.body \in {"no_usage", "no_envelope"}
      THEN Resolved(ErrorResponse(id, "OpenAI", MsgType))
    ELSE Resolved(
      [id |-> id, provider |-> "OpenAI",
       text |-> IF reply.body = "no_text" THEN Undefined ELSE reply.text,
       metrics |->
         LET prompt_tokens == IF reply.body = "no_counts"
                                THEN UndefNum ELSE Num(reply.ptokens)
             completion_tokens == IF reply.body = "no_counts"
                                    THEN UndefNum ELSE Num(reply.tokens)
             total_tokens == IF reply.body = "no_counts"
                               THEN UndefNum
                               ELSE Num(reply.ptokens + reply.tokens)
         IN  [responseTime |-> Num(reply.elapsed),
              tokensPerSecond |->
                JsDiv(completion_tokens, Num(reply.elapsed), 1000),
              totalTokens |-> total_tokens,
              promptTokens |-> prompt_tokens,
              completionTokens |-> completion_tokens,
              cost |-> OpenAICalculateCost(prompt_tokens, completion_tokens,
                                           OrElse(model, "gpt-4"))],
       error |-> Absent])

\* AnthropicService.generateResponse
AnthropicGenerateResponse(id, model, prompt, reply) ==
    IF reply.net = "fail"
      THEN Resolved(ErrorResponse(id, "Anthropic", MsgFetch))
    ELSE IF ~reply.ok
      THEN Resolved(ErrorResponse(id, "Anthropic",
                                  HttpErrorMessage(reply, "Anthropic API error")))
    ELSE IF reply.body = "nojson"
      THEN Resolved(ErrorResponse(id, "Anthropic", MsgSyntax))
    ELSE IF reply.body \in {"no_envelope", "no_text"}
      THEN Resolved(ErrorResponse(id, "Anthropic", MsgType))
    ELSE Resolved(
      [id |-> id, provider |-> "Anthropic", text |-> reply.text,
       metrics |->
         LET promptTokens == estimateTokenCount(prompt)
             completionTokens == estimateTokenCount(reply.text)
             totalTokens == promptTokens + completionTokens
         IN  [responseTime |-> Num(reply.elapsed),
              tokensPerSecond |->
                JsDiv(Num(completionTokens), Num(reply.elapsed), 1000),
              totalTokens |-> Num(totalTokens),
              promptTokens |-> Num(promptTokens),
              completionTokens |-> Num(completionTokens),
              cost |-> AnthropicCalculateCost(Num(totalTokens),
                           OrElse(model, "claude-3-opus"))],
       error |-> Absent])

\* GGUFService.isServerRunning
isServerRunning(probe) == probe.net = "ok" /\ probe.ok

\* GGUFService.generateResponse: the health probe, then the completion call
GGUFGenerateResponse(id, prompt, probe, reply) ==
    IF ~isServerRunning(probe)
      THEN Resolved(ErrorResponse(id, "GGUF", "GGUF server is not running"))
    ELSE IF reply.net = "fail" THEN Resolved(ErrorResponse(id, "GGUF", MsgFetch))
    ELSE IF ~reply.ok
      THEN Resolved(ErrorResponse(id, "GGUF",
                                  HttpErrorMessage(reply, "GGUF API error")))
    ELSE IF reply.body = "nojson"
      THEN Resolved(ErrorResponse(id, "GGUF", MsgSyntax))
    ELSE IF reply.body = "no_text"
      THEN Resolved(ErrorResponse(id, "GGUF", MsgType))
    ELSE Resolved(
      [id |-> id, provider |-> "GGUF", text |-> reply.text,
       metrics |->
         LET completionTokens == estimateTokenCount(reply.text)
             promptTokens == estimateTokenCount(prompt)
         IN  [responseTime |-> Num(reply.elapsed),
              tokensPerSecond |->
                JsDiv(Num(completionTokens), Num(reply.elapsed), 1000),
              totalTokens |-> Num(promptTokens + completionTokens),
              promptTokens |-> Num(promptTokens),
              completionTokens |-> Num(completionTokens),
              cost |-> AbsentNum],
       error |-> Absent])

\* OllamaService.generateCompletion: resolves with a metrics object (no id,
\* provider, text or error field) and rethrows whatever it catches.
\* tokensPerSecond is (prompt_eval_count + eval_count) over
\* (prompt_eval_duration + eval_duration) in seconds; with the counts and
\* durations missing the sums of undefined are NaN
OllamaGenerateCompletion(id, prompt, reply) ==
    IF reply.net = "fail" THEN Rejected(MsgFetch)
    ELSE IF ~reply.ok
      THEN Rejected(IF reply.body = "err_msg" THEN MsgProvider
                                              ELSE "Ollama API error")
    ELSE IF reply.body = "nojson" THEN Rejected(MsgSyntax)
    ELSE Resolved(
      [id |-> Absent, provider |-> Absent, text |-> Absent,
       metrics |->
         [responseTime |-> IF reply.body = "no_counts"
                             THEN NaN ELSE Num(PromptEvalMs + reply.elapsed),
          tokensPerSecond |->
            JsDiv(IF reply.body = "no_counts"
                    THEN NaN ELSE Num(reply.ptokens + reply.tokens),
                  IF reply.body = "no_counts"
                    THEN NaN ELSE Num(PromptEvalMs + reply.elapsed),
                  1000),
          totalTokens |-> IF reply.body = "no_counts"
                            THEN NaN ELSE Num(reply.ptokens + reply.tokens),
          promptTokens |-> IF reply.body = "no_counts"
                             THEN UndefNum ELSE Num(reply.ptokens),
          completionTokens |-> IF reply.body = "no_counts"
                                 THEN UndefNum ELSE Num(reply.tokens),
          cost |-> AbsentNum],
       error |-> Absent])

\* OllamaService.calculateMetrics(stats, responseTime, text).tokensPerSecond:
\* eval_count / (eval_duration / 1000) with eval_duration in nanoseconds
\* (reply.elapsed * 10^6) when both are truthy, else the estimated tokens
\* over responseTime in seconds
calculateMetrics(reply) ==
    IF reply.body # "no_counts" /\ reply.tokens # 0 /\ reply.elapsed # 0
      THEN JsDiv(Num(reply.tokens), Num(reply.elapsed * 1000), 1)
      ELSE JsDiv(Num(estimateTokenCount(reply.text)), Num(reply.elapsed), 1000)

(***************************************************************************)
(* The legacy ModelService: one call method per provider, none of which    *)
(* looks at response.ok.  Its ModelResponse has no id.                     *)
(***************************************************************************)
LegacyKinds == {"openai", "anthropic", "ollama", "huggingface", "gguf"}

LegacyError(kind, msg) == ErrorResponse(Absent, ProviderLabel(kind), msg)

\* property reads that throw a TypeError on the parsed body: callOpenAI
\* reads data.choices[0].message.content and data.usage.completion_tokens,
\* callAnthropic data.content[0].text, callHuggingFace data[0].generated_text;
\* callOllama and callGGUF read one top-level field and cannot throw
LegacyThrows(kind, body) ==
    CASE kind = "openai" ->
           body \in {"err_msg", "err_none", "no_envelope", "no_usage"}
      [] kind \in {"anthropic", "huggingface"} ->
           body \in {"err_msg", "err_none", "no_envelope"}
      [] OTHER -> FALSE

\* ModelService.callOpenAI / callAnthropic / callOllama / callHuggingFace /
\* callGGUF
LegacyCall(kind, prompt, reply) ==
    IF reply.net = "fail" THEN Resolved(LegacyError(kind, MsgFetch))
    ELSE IF reply.body = "nojson" THEN Resolved(LegacyError(kind, MsgSyntax))
    ELSE IF LegacyThrows(kind, reply.body)
      THEN Resolved(LegacyError(kind, MsgType))
    ELSE Resolved(
      [id |-> Absent, provider |-> ProviderLabel(kind),
       text |-> IF reply.body \in {"full", "no_usage", "no_counts"}
                  THEN reply.text ELSE Undefined,
       metrics |->
         [responseTime |-> Num(reply.elapsed),
          tokensPerSecond |->
            CASE kind = "openai" ->
                   JsDiv(IF reply.body = "no_counts" THEN UndefNum
                                                      ELSE Num(reply.tokens),
                         Num(reply.elapsed), 1000)
              [] kind = "gguf" -> Num(reply.tps)
              [] OTHER -> Num(0),
          totalTokens |-> AbsentNum, promptTokens |-> AbsentNum,
          completionTokens |-> AbsentNum, cost |-> AbsentNum],
       error |-> Absent])

(***************************************************************************)
(* ProviderConfigs values handed to updateConfigs: up to MaxConfigs        *)
(* configs, at most MaxPerKind of one kind, each enabled or not.  The i-th *)
(* config of a kind has the id "<kind>-<i>".                               *)
(***************************************************************************)
Digit == <<"1", "2", "3", "4", "5">>

Slots == UNION {[1..n -> Kinds \X BOOLEAN] : n \in 0..MaxConfigs}

OfKind(sl, k) == SelectSeq(sl, LAMBDA x : x[1] = k)

ConfigsOf(sl) ==
    [k \in Kinds |->
        [i \in 1..Len(OfKind(sl, k)) |->
            [id |-> k \o "-" \o Digit[i], enabled |-> OfKind(sl, k)[i][2]]]]

ConfigChoices ==
    {ConfigsOf(sl) : sl \in
        {x \in Slots : \A k \in Kinds : Len(OfKind(x, k)) <= MaxPerKind}}

\* the ids of every enabled configuration, over all provider kinds
EnabledIds(c) ==
    {c[k][i].id : <<k, i>> \in
        {<<k, i>> \in Kinds \X (1..(MaxConfigs + 1)) :
            i <= Len(c[k]) /\ c[k][i].enabled}}

EmptyConfigs == [k \in Kinds |-> <<>>]

(***************************************************************************)
(* ComparisonService.                                                      *)
(***************************************************************************)
\* configs[kind].filter(config => config.enabled).map(config => new ...):
\* one adapter instance per enabled config, in the config order
AdaptersOf(c, kind) ==
    LET en == SelectSeq(c[kind], LAMBDA x : x.enabled)
    IN  [i \in 1..Len(en) |-> [kind |-> kind, id |-> en[i].id]]

\* updateConfigs builds adapters for these four keys only
BuildServices(c) ==
    [k \in {ServiceKinds[j] : j \in 1..Len(ServiceKinds)} |-> AdaptersOf(c, k)]

\* the adapters in the order the four loops of compareModels visit them
ServiceList(svc) ==
    svc[ServiceKinds[1]] \o svc[ServiceKinds[2]]
      \o svc[ServiceKinds[3]] \o svc[ServiceKinds[4]]

\* whether the adapter class defines generateResponse: OllamaService has
\* generateCompletion, listModels and pullModel but no generateResponse, so
\* service.generateResponse(prompt) throws a TypeError
HasGenerateResponse(kind) == kind \in {"openai", "anthropic", "gguf"}

MsgNotAFunction == "service.generateResponse is not a function"

\* the index of the first adapter of the list whose generateResponse call
\* throws, or Len + 1 when none does
RECURSIVE FirstThrowing(_, _)
FirstThrowing(list, i) ==
    IF i > Len(list) \/ ~HasGenerateResponse(list[i].kind) THEN i
    ELSE FirstThrowing(list, i + 1)

\* a compareModels that would await each call before invoking the next
InvokedOneByOne(list, n) == SubSeq(list, 1, IF n >= 1 THEN 1 ELSE 0)

\* the calls pushed onto the promises array before compareModels awaits
\* (ComparisonService and ModelService alike): there is no await between
\* the pushes, so all the n calls that precede a throw are invoked
InvokedAtStart(list, n) == SubSeq(list, 1, n)

NoReply == [net |-> "none", ok |-> FALSE, body |-> "none", elapsed |-> 0,
            text |-> "", tokens |-> 0, ptokens |-> 0, tps |-> 0]

Pending == [settled |-> "pending",
            value |-> [id |-> Absent, provider |-> Absent, text |-> Absent,
                       metrics |-> ZeroMetrics, error |-> Absent],
            thrown |-> Absent]

\* an adapter call that has just been invoked: every generateResponse runs
\* synchronously up to its first fetch, which for GGUFService is the health
\* probe of isServerRunning
NewCall(a) ==
    [kind |-> a.kind, id |-> a.id,
     st |-> IF a.kind = "gguf" THEN "probe" ELSE "sent",
     probe |-> NoReply, failed |-> FALSE, out |-> Pending]

\* the adapter's generateResponse, by kind
GenerateResponse(kind, id, model, prompt, probe, reply) ==
    CASE kind = "openai" -> OpenAIGenerateResponse(id, model, prompt, reply)
      [] kind = "anthropic" ->
           AnthropicGenerateResponse(id, model, prompt, reply)
      [] kind = "gguf" -> GGUFGenerateResponse(id, prompt, probe, reply)
      [] OTHER -> Rejected(MsgNotAFunction)

\* JavaScript truthiness of response.error
HasError(r) == r.error # Absent /\ r.error # ""

\* a fan-in that would collect the responses as the calls settle
CollectAsSettled(calls, order) ==
    [i \in 1..Len(calls) |-> calls[order[i]].out.value]

\* the order Promise.all gives the results of the promises array in
CollectResponses(calls, order) == [i \in 1..Len(calls) |-> calls[i].out.value]

\* responses.filter(r => r.error).map(r => `${r.provider} (...): ${r.error}`)
ErrorsOf(responses) ==
    LET failed == SelectSeq(responses, HasError)
    IN  [i \in 1..Len(failed) |-> <<failed[i].provider, failed[i].error>>]

\* a result that would always carry the list, empty when nothing failed
ErrorListAlways(responses) == [present |-> TRUE, list |-> ErrorsOf(responses)]

\* the errors field of the ComparisonResult:
\* errors.length > 0 ? errors : undefined
ErrorList(responses) ==
    [present |-> Len(ErrorsOf(responses)) > 0, list |-> ErrorsOf(responses)]

NoErrors == [present |-> FALSE, list |-> <<>>]

(***************************************************************************)
(* ModelService.compareModels of the legacy dashboard.  The settings are   *)
(* the set of fields that hold a value; "gguf" stands for the gguf entry   *)
(* itself, which the legacy dashboard's initial settings lack.             *)
(***************************************************************************)
SettingFields ==
    {"openai.apiKey", "anthropic.apiKey", "google.apiKey", "ollama.baseUrl",
     "huggingface.apiKey", "huggingface.modelName", "gguf.ggufPath"}

SettingsChoices ==
    {s \cup g : s \in {x \in SUBSET SettingFields : Cardinality(x) <= MaxConfigs},
                g \in {{}, {"gguf"}}}
      \ {s \in SUBSET (SettingFields \cup {"gguf"}) :
            "gguf.ggufPath" \in s /\ "gguf" \notin s}

\* the call methods compareModels pushes, in its order
LegacyList(s) ==
    (IF "openai.apiKey" \in s THEN <<"openai">> ELSE <<>>)
      \o (IF "anthropic.apiKey" \in s THEN <<"anthropic">> ELSE <<>>)
      \o (IF "ollama.baseUrl" \in s THEN <<"ollama">> ELSE <<>>)
      \o (IF "huggingface.apiKey" \in s /\ "huggingface.modelName" \in s
            THEN <<"huggingface">> ELSE <<>>)
      \o (IF "gguf.ggufPath" \in s THEN <<"gguf">> ELSE <<>>)

IdleLegacy ==
    [pc |-> "idle", prompt |-> <<>>, settings |-> {}, svcs |-> <<>>,
     calls |-> <<>>, order |-> <<>>, responses |-> <<>>, thrown |-> Absent]

(***************************************************************************)
(* ComparisonService.validateConnections: four loops, one per key of       *)
(* this.services, each awaiting one probe per adapter.                     *)
(***************************************************************************)
\* what GET /api/tags is answered with: "full" lists one model, "empty"
\* is {models: []}
TagsReplies ==
    {NetFail}
      \cup {r \in HttpErrorReplies : r.body = "err_msg"}
      \cup {[net |-> "ok", ok |-> TRUE, body |-> b, elapsed |-> 0,
              text |-> "", tokens |-> 0, ptokens |-> 0, tps |-> 0] :
                b \in {"full", "empty", "nojson"}}

\* OllamaService.listModels: the model names, [] on any failure
listModels(reply) ==
    IF reply.net = "fail" \/ ~reply.ok \/ reply.body = "nojson" THEN <<>>
    ELSE IF reply.body = "full" THEN <<"llama3">>
    ELSE <<>>

\* the replies the probe of an adapter of this kind is answered with
ValidateReplies(kind) ==
    CASE kind = "ollama" -> TagsReplies
      [] kind = "gguf" -> ProbeReplies
      [] OTHER -> RunReplies(kind)

TestPrompt == <<"t", "e", "s", "t">>

\* the boolean validateConnections stores for an adapter
ProbeValue(kind, id, reply) ==
    CASE kind = "ollama" -> Len(listModels(reply)) > 0
      [] kind = "gguf" -> isServerRunning(reply)
      [] OTHER ->
           LET out == GenerateResponse(kind, id, Undefined, TestPrompt,
                                           NoReply, reply)
           IN  out.settled = "resolved" /\ ~HasError(out.value)

\* the endpoint answered the probe with a success status and a JSON body
ProbeSucceeded(reply) ==
    reply.net = "ok" /\ reply.ok /\ reply.body # "nojson"

\* results[`<kind>-${service['config'].id}`] = value
ResultEntry(a, reply) ==
    [key |-> a.kind \o "-" \o a.id, id |-> a.id,
     value |-> ProbeValue(a.kind, a.id, reply), live |-> ProbeSucceeded(reply)]

\* the first loop from the k-th on whose array this.services[kind] is not
\* empty, Len(ServiceKinds) + 1 when there is none
RECURSIVE NextLoop(_, _)
NextLoop(svc, k) ==
    IF k > Len(ServiceKinds) \/ svc[ServiceKinds[k]] # <<>> THEN k
    ELSE NextLoop(svc, k + 1)

\* a loop that would walk the array the services held when the run started
LoopArrayAtStart(svc, start, k) ==
    IF k > Len(ServiceKinds) THEN <<>>
    ELSE SelectSeq(start, LAMBDA a : a.kind = ServiceKinds[k])

\* the array a loop walks: this.services[kind], read when the loop starts
LoopArray(svc, start, k) ==
    IF k > Len(ServiceKinds) THEN <<>> ELSE svc[ServiceKinds[k]]

IdleValidate ==
    [pc |-> "idle", enabled |-> {}, start |-> <<>>, k |-> 1, list |-> <<>>,
     i |-> 1, results |-> <<>>]

(***************************************************************************)
(* Overlapping compareModels calls on the one ComparisonService, and the   *)
(* lastRateLimit field of its OpenAIService instances.  lastRateLimit      *)
(* holds the rate-limit headers of a response; by names the run whose      *)
(* request that response answered.                                         *)
(***************************************************************************)
Callers == {1, 2}

ReentryPrompts == {<<"a">>, <<"b">>}

OpenAIIds == {"openai-" \o Digit[i] : i \in 1..(MaxPerKind + 1)}

NoRateLimit == [set |-> FALSE, by |-> 0]

\* private lastRateLimit?: OpenAIRateLimit of every new OpenAIService
NoRateLimits == [id \in OpenAIIds |-> NoRateLimit]

\* updateRateLimits(response.headers), called by generateResponse once the
\* response has a success status
updateRateLimits(limits, id, r) == [limits EXCEPT ![id] = [set |-> TRUE, by |-> r]]

\* the replies the calls of overlapping runs are answered with
ReentryReplies(kind) ==
    {NetFail} \cup {r \in RunReplies(kind) : r.net = "ok" /\ r.ok /\ r.body = "full"}

IdleSlot ==
    [pc |-> "idle", prompt |-> <<>>, svcs |-> <<>>, calls |-> <<>>,
     result |-> [prompt |-> <<>>, responses |-> <<>>]]

\* a call of a run: the adapter call and the prompt it was handed
SlotCall(a, prompt) ==
    [kind |-> a.kind, id |-> a.id, prompt |-> prompt,
     st |-> NewCall(a).st, probe |-> NoReply, wrote |-> FALSE, out |-> Pending]

IdleReentry ==
    [runs |-> [r \in Callers |-> IdleSlot], lastRateLimit |-> NoRateLimits]

(***************************************************************************)
(* The settings page and the persisted configuration.  A JavaScript value  *)
(* is [t, v] with t one of "undef", "str", "bool", "num", "nan", "null"    *)
(* and v its text; an object is the sequence of its <<key, value>>         *)
(* properties.  A JSON document holds, per provider kind, the array of     *)
(* objects as <<key, token>> sequences, a token being the literal          *)
(* [lit, text] with lit one of "string", "number", "true", "false",        *)
(* "null".                                                                 *)
(***************************************************************************)
JsUndef == [t |-> "undef", v |-> ""]
JsStr(x) == [t |-> "str", v |-> x]
JsBool(b) == [t |-> "bool", v |-> IF b THEN "true" ELSE "false"]

\* obj[key]: undefined when the object has no such property
Read(obj, key) ==
    IF \E j \in 1..Len(obj) : obj[j][1] = key
      THEN obj[CHOOSE j \in 1..Len(obj) : obj[j][1] = key][2]
      ELSE JsUndef

\* {...obj, [key]: value}
Assign(obj, key, value) ==
    IF \E j \in 1..Len(obj) : obj[j][1] = key
      THEN [j \in 1..Len(obj) |->
              IF obj[j][1] = key THEN <<key, value>> ELSE obj[j]]
      ELSE Append(obj, <<key, value>>)

\* x || undefined
OrUndefined(x) == IF x = "" THEN JsUndef ELSE JsStr(x)

\* the JSON literal of a value; NaN and Infinity are written as null
JsonToken(value) ==
    CASE value.t = "str" -> [lit |-> "string", text |-> value.v]
      [] value.t = "num" -> [lit |-> "number", text |-> value.v]
      [] value.t = "bool" -> [lit |-> value.v, text |-> ""]
      [] OTHER -> [lit |-> "null", text |-> ""]

\* the value of a JSON literal
JsonValue(token) ==
    CASE token.lit = "string" -> [t |-> "str", v |-> token.text]
      [] token.lit = "number" -> [t |-> "num", v |-> token.text]
      [] token.lit = "true" -> JsBool(TRUE)
      [] token.lit = "false" -> JsBool(FALSE)
      [] OTHER -> [t |-> "null", v |-> ""]

\* a serialisation that would skip every falsy property
StringifyTruthy(obj) ==
    LET kept == SelectSeq(obj, LAMBDA pr :
                    pr[2].t # "undef" /\ pr[2] # JsBool(FALSE) /\ pr[2].v # "")
    IN  [j \in 1..Len(kept) |-> <<kept[j][1], JsonToken(kept[j][2])>>]

\* JSON.stringify of an object: properties whose value is undefined are
\* left out
StringifyObject(obj) ==
    LET kept == SelectSeq(obj, LAMBDA pr : pr[2].t # "undef")
    IN  [j \in 1..Len(kept) |-> <<kept[j][1], JsonToken(kept[j][2])>>]

\* JSON.parse of an object
ParseObject(doc) == [j \in 1..Len(doc) |-> <<doc[j][1], JsonValue(doc[j][2])>>]

\* JSON.stringify(newConfigs)
StringifyConfigs(c) ==
    [k \in Kinds |-> [j \in 1..Len(c[k]) |-> StringifyObject(c[k][j])]]

\* the initializer of the configs state of Settings, for a stored document:
\* JSON.parse, every provider array kept
LoadConfigs(doc) ==
    [k \in Kinds |-> [j \in 1..Len(doc[k]) |-> ParseObject(doc[k][j])]]

\* what the user has typed into the OpenAI connection form
FormInputs ==
    [name : {"main"}, apiKey : {"sk-1"}, baseUrl : {"", "http://proxy"},
     modelName : {"gpt-4"}, organization : {""}, projectId : {""},
     isProjectKey : {FALSE}]

\* the config handleSubmit of OpenAIConnectionForm hands to onSubmit;
\* `connection` is the edited connection, <<>> for a new one, and uuid
\* what crypto.randomUUID() gives
handleSubmit(connection, form, uuid) ==
    <<
      <<"id", IF connection # <<>> /\ Read(connection, "id").t = "str"
                THEN Read(connection, "id") ELSE JsStr(uuid)>>,
      <<"name", JsStr(form.name)>>,
      <<"enabled", IF connection # <<>>
                       /\ Read(connection, "enabled").t \notin {"undef", "null"}
                     THEN Read(connection, "enabled") ELSE JsBool(TRUE)>>,
      <<"apiKey", JsStr(form.apiKey)>>,
      <<"baseUrl", OrUndefined(form.baseUrl)>>,
      <<"modelName", JsStr(form.modelName)>>,
      <<"organization", OrUndefined(form.organization)>>,
      <<"projectId", OrUndefined(form.projectId)>>,
      <<"isProjectKey", JsBool(form.isProjectKey)>>,
      <<"temperature", IF connection # <<>>
                         THEN Read(connection, "temperature") ELSE JsUndef>>,
      <<"maxTokens", IF connection # <<>>
                       THEN Read(connection, "maxTokens") ELSE JsUndef>>
    >>

\* what the user has typed into the Ollama connection form
OllamaFormInputs ==
    [name : {"local"}, baseUrl : {"http://localhost:11434"},
     modelName : {"llama3"}, contextSize : {"", "4096"}]

\* the OllamaEndpointConfig the Ollama connection form hands to onSubmit,
\* built the way the OpenAI form builds its config
ollamaSubmit(connection, form, uuid) ==
    <<
      <<"id", IF connection # <<>> /\ Read(connection, "id").t = "str"
                THEN Read(connection, "id") ELSE JsStr(uuid)>>,
      <<"name", JsStr(form.name)>>,
      <<"enabled", IF connection # <<>>
                       /\ Read(connection, "enabled").t \notin {"undef", "null"}
                     THEN Read(connection, "enabled") ELSE JsBool(TRUE)>>,
      <<"baseUrl", JsStr(form.baseUrl)>>,
      <<"modelName", JsStr(form.modelName)>>,
      <<"context_size", IF form.contextSize = "" THEN JsUndef
                          ELSE [t |-> "num", v |-> form.contextSize]>>,
      <<"temperature", IF connection # <<>>
                         THEN Read(connection, "temperature") ELSE JsUndef>>,
      <<"maxTokens", IF connection # <<>>
                       THEN Read(connection, "maxTokens") ELSE JsUndef>>
    >>

\* Settings as mounted on an empty localStorage: defaultConfigs
IdleSettings ==
    [pc |-> "mounted", configs |-> EmptyConfigs, written |-> EmptyConfigs,
     stored |-> [present |-> FALSE, doc |-> EmptyConfigs], uuids |-> 0,
     op |-> [name |-> "mount", kind |-> "none", id |-> ""]]

IdleRun ==
    [pc |-> "idle", prompt |-> <<>>, svcs |-> <<>>, enabled |-> {},
     calls |-> <<>>, order |-> <<>>, fetches |-> 0,
     responses |-> <<>>, errors |-> NoErrors, thrown |-> Absent]

IdleAdapter ==
    [api |-> "none", kind |-> "none", model |-> Undefined, st |-> "idle",
     prompt |-> <<>>,
     probe |-> NoReply, reply |-> NoReply, fetches |-> 0, out |-> Pending]

(***************************************************************************)
(* The OpenAI connection form: loadModels and testConnection, each on an   *)
(* OpenAIService of its own, both asking GET /models.                      *)
(***************************************************************************)
\* Object.keys(this.modelCapabilities), in insertion order
BuiltInModels == <<"gpt-4", "gpt-4-turbo-preview", "gpt-3.5-turbo">>

\* model.id.startsWith('gpt-')
StartsWithGpt(id) ==
    id \in {"gpt-4", "gpt-4-turbo-preview", "gpt-3.5-turbo",
            "gpt-3.5-turbo-instruct"}

\* model.id.includes('instruct')
IncludesInstruct(id) == id = "gpt-3.5-turbo-instruct"

\* the ids of data.data in a well-formed answer of GET /models
ListedIds ==
    {<<>>, <<"text-davinci-003">>,
     <<"gpt-4", "gpt-3.5-turbo-instruct", "text-davinci-003",
       "gpt-3.5-turbo">>}

\* bodies of a 200 answer that listModels cannot read: not JSON, no data
\* property, data that is not an array, an entry without id
MalformedLists == {"nojson", "no_data", "not_array", "no_id"}

\* bodies of a non-success answer: not JSON, JSON null, an error object
\* with and without message
ModelsErrorBodies == {"nojson", "null", "err_msg", "err_none"}

ModelsReplies ==
    {[net |-> "fail", ok |-> FALSE, body |-> "none", ids |-> <<>>]}
      \cup {[net |-> "ok", ok |-> FALSE, body |-> b, ids |-> <<>>] :
               b \in ModelsErrorBodies}
      \cup {[net |-> "ok", ok |-> TRUE, body |-> b, ids |-> <<>>] :
               b \in MalformedLists}
      \cup {[net |-> "ok", ok |-> TRUE, body |-> "list", ids |-> ids] :
               ids \in ListedIds}

\* a listModels whose catch would rethrow
ListModelsRethrowing(reply) ==
    IF reply.net = "fail" THEN Rejected(MsgFetch)
    ELSE IF ~reply.ok THEN Rejected("Failed to fetch models")
    ELSE IF reply.body = "nojson" THEN Rejected(MsgSyntax)
    ELSE IF reply.body \in MalformedLists THEN Rejected(MsgType)
    ELSE Resolved(SelectSeq(reply.ids,
             LAMBDA id : StartsWithGpt(id) /\ ~IncludesInstruct(id)))

\* OpenAIService.listModels: whatever is thrown inside the try is caught
\* and answered with the keys of modelCapabilities
OpenAIListModels(reply) ==
    IF reply.net = "fail" THEN Resolved(BuiltInModels)
    ELSE IF ~reply.ok THEN Resolved(BuiltInModels)
    ELSE IF reply.body = "nojson" THEN Resolved(BuiltInModels)
    ELSE IF reply.body \in MalformedLists THEN Resolved(BuiltInModels)
    ELSE Resolved(SelectSeq(reply.ids,
             LAMBDA id : StartsWithGpt(id) /\ ~IncludesInstruct(id)))

\* `Connection test failed: ${error.message}`
ConnectionTestFailed(message) == "Connection test failed: " \o message

\* OpenAIService.testConnection: the body is read on a non-success status
\* only; response.headers[...] of a Headers object is undefined, so every
\* limit of updateRateLimits is parseInt('0')
OpenAITestConnection(reply) ==
    IF reply.net = "fail" THEN Rejected(ConnectionTestFailed(MsgFetch))
    ELSE IF ~reply.ok
      THEN Rejected(ConnectionTestFailed(
             CASE reply.body = "nojson" -> MsgSyntax
               [] reply.body = "null" -> MsgType
               [] reply.body = "err_msg" -> MsgProvider
               [] OTHER -> "OpenAI API error"))
    ELSE Resolved([success |-> TRUE, rateLimit |-> [requests_limit |-> 0]])

NoModelsReply == [net |-> "none", ok |-> FALSE, body |-> "none", ids |-> <<>>]

IdleRequest == [st |-> "idle", reply |-> NoModelsReply, out |-> Pending]

IdleForm ==
    [list |-> IdleRequest, test |-> IdleRequest, availableModels |-> <<>>,
     isLoading |-> FALSE, isTestingConnection |-> FALSE, toast |-> "none"]

(***************************************************************************)
(* The comparison dashboard page: the connections it reads from            *)
(* localStorage when it mounts, the model checkboxes, handleCompare and    *)
(* the performance history.                                                *)
(***************************************************************************)
\* handleCompare runs of one behaviour
MaxCompares == 2
\* updates of the performance history of one behaviour
MaxUpdates == 11
\* of which updates that carry a result for one model only
MaxPartial == 2

\* slice(-9)
HistoryKept == 9

DashboardIds == {"openai-1", "ollama-1", "ollama-2"}

\* a connection of the stored document; the OpenAI form writes no provider
\* property
Connection(id, name, provider, enabled) ==
    [id |-> id, name |-> name, provider |-> provider, enabled |-> enabled]

DashboardConfigChoices ==
    {[openai |-> o, ollama |-> l] :
        o \in {<<>>, <<Connection("openai-1", "main", Undefined, TRUE)>>},
        l \in {<<>>,
               <<Connection("ollama-1", "local", "ollama", TRUE),
                 Connection("ollama-2", "remote", "ollama", TRUE)>>,
               <<Connection("ollama-1", "local", "ollama", TRUE),
                 Connection("ollama-2", "remote", "ollama", FALSE)>>,
               <<Connection("ollama-1", "local", "ollama", TRUE),
                 Connection("ollama-2", "remote", Undefined, TRUE)>>}}

\* [...configs.openai.filter(m => m.enabled),
\*  ...configs.ollama.filter(m => m.enabled)]
enabledModels(c) ==
    SelectSeq(c.openai, LAMBDA m : m.enabled)
      \o SelectSeq(c.ollama, LAMBDA m : m.enabled)

\* enabledModels.find(m => m.id === modelId); <<>> stands for undefined
FindModel(c, modelId) ==
    LET found == SelectSeq(enabledModels(c), LAMBDA m : m.id = modelId)
    IN  IF found = <<>> THEN <<>> ELSE <<found[1]>>

\* a provider test that would let every connection through
AnyProvider(model) == TRUE

\* model.provider === 'ollama'
IsOllama(model) == model.provider = "ollama"

\* x || 0 for a number
OrZero(x) == IF x.k = "num" /\ x.v # 0 THEN x ELSE IF x.k = "inf" THEN x ELSE Num(0)

NoResult ==
    [modelId |-> Absent, modelName |-> Absent, timestamp |-> 0,
     responseTime |-> Num(0), tokensPerSecond |-> Num(0),
     totalTokens |-> Num(0), promptTokens |-> Num(0),
     completionTokens |-> Num(0)]

\* the ModelMetrics handleCompare builds from what generateCompletion
\* resolved with
ResultOf(model, now, metrics) ==
    [modelId |-> model.id, modelName |-> model.name, timestamp |-> now,
     responseTime |-> metrics.responseTime,
     tokensPerSecond |-> metrics.tokensPerSecond,
     totalTokens |-> metrics.totalTokens,
     promptTokens |-> OrZero(metrics.promptTokens),
     completionTokens |-> OrZero(metrics.completionTokens)]

\* a slice that would keep the whole list
WholeList(list) == list

\* list.slice(-9)
LastNine(list) ==
    IF Len(list) > HistoryKept
      THEN SubSeq(list, Len(list) - HistoryKept + 1, Len(list))
      ELSE list

\* the updater handed to setPerformance: for each result in turn,
\* newPerformance[id] = [...(newPerformance[id] || []).slice(-9), result]
RECURSIVE UpdatePerformance(_, _)
UpdatePerformance(prev, results) ==
    IF results = <<>> THEN prev
    ELSE UpdatePerformance(
           [prev EXCEPT ![Head(results).modelId] =
                           Append(LastNine(@), Head(results))],
           Tail(results))

Toast(title, description) == [title |-> title, description |-> description]

\* the promise of one selected model: "null" when it resolved with null
\* without a request
NoCall == [id |-> Absent, st |-> "null", reply |-> NoReply,
           result |-> NoResult]

EmptyPerformance == [id \in DashboardIds |-> <<>>]

IdleDashboard ==
    [pc |-> "unmounted",
     configs |-> [openai |-> <<>>, ollama |-> <<>>],
     prompt |-> <<>>, selectedModels |-> <<>>, isProcessing |-> FALSE,
     inflight |-> 0, calls |-> <<>>, toasts |-> <<>>, results |-> <<>>,
     performance |-> EmptyPerformance, before |-> EmptyPerformance,
     now |-> 0, partial |-> 0, outcome |-> "none"]

Init ==
    /\ configs = EmptyConfigs
    /\ services = BuildServices(EmptyConfigs)
    /\ run = IdleRun
    /\ legacy = IdleLegacy
    /\ adapter = IdleAdapter
    /\ validate = IdleValidate
    /\ reentry = IdleReentry
    /\ settings = IdleSettings
    /\ connForm = IdleForm
    /\ dashboard = IdleDashboard

\* ComparisonService.updateConfigs(c)
updateConfigs(c) ==
    /\ configs' = c
    /\ services' = BuildServices(c)
    /\ reentry' = [reentry EXCEPT !.lastRateLimit = NoRateLimits]
    /\ UNCHANGED <<run, legacy, adapter, validate, settings,
                 pages>>

\* ComparisonService.compareModels(prompt), up to its await
compareModels(prompt) ==
    LET list == ServiceList(services)
        invoked == InvokedAtStart(list, FirstThrowing(list, 1) - 1)
        throws == FirstThrowing(list, 1) <= Len(list)
    IN  /\ run.pc = "idle" /\ legacy.pc = "idle"
        /\ run' = [pc |-> IF throws THEN "rejected" ELSE "awaiting",
                   prompt |-> prompt, svcs |-> list,
                   enabled |-> EnabledIds(configs),
                   calls |-> [i \in 1..Len(invoked) |-> NewCall(invoked[i])],
                   order |-> <<>>, fetches |-> Len(invoked),
                   responses |-> <<>>, errors |-> NoErrors,
                   thrown |-> IF throws THEN MsgNotAFunction ELSE Absent]
        /\ UNCHANGED <<configs, services, legacy, adapter, others>>

\* the health probe of a GGUF call of the run settles
ProbeSettle(i, probe) ==
    /\ i \in 1..Len(run.calls)
    /\ run.calls[i].st = "probe"
    /\ IF isServerRunning(probe)
         THEN run' = [run EXCEPT !.calls[i].st = "sent",
                                 !.calls[i].probe = probe,
                                 !.fetches = @ + 1]
         ELSE run' = [run EXCEPT !.calls[i].st = "done",
                                 !.calls[i].probe = probe,
                                 !.calls[i].failed = TRUE,
                                 !.calls[i].out =
                                    GenerateResponse(run.calls[i].kind,
                                        run.calls[i].id, Undefined,
                                        run.prompt, probe, NoReply),
                                 !.order = Append(@, i)]
    /\ UNCHANGED <<configs, services, legacy, adapter, others>>

\* the generation request of a call of the run settles
CallSettle(i, reply) ==
    /\ i \in 1..Len(run.calls)
    /\ run.calls[i].st = "sent"
    /\ run' = [run EXCEPT !.calls[i].st = "done",
                          !.calls[i].failed = CallFailed(reply),
                          !.calls[i].out =
                             GenerateResponse(run.calls[i].kind,
                                 run.calls[i].id, Undefined, run.prompt,
                                 run.calls[i].probe, reply),
                          !.order = Append(@, i)]
    /\ UNCHANGED <<configs, services, legacy, adapter, others>>

\* the continuation of `await Promise.all(promises)`: Promise.all rejects
\* as soon as one promise has rejected and resolves once all have resolved
Resolve ==
    LET rejected == {i \in 1..Len(run.calls) :
                        run.calls[i].out.settled = "rejected"}
        responses == CollectResponses(run.calls, run.order)
    IN  /\ run.pc = "awaiting"
        /\ \/ rejected # {}
           \/ \A i \in 1..Len(run.calls) : run.calls[i].st = "done"
        /\ IF rejected # {}
             THEN run' = [run EXCEPT !.pc = "rejected",
                            !.thrown = run.calls[CHOOSE i \in rejected : TRUE]
                                          .out.thrown]
             ELSE run' = [run EXCEPT !.pc = "resolved",
                                     !.responses = responses,
                                     !.errors = ErrorList(responses)]
        /\ UNCHANGED <<configs, services, legacy, adapter, others>>

\* ModelService.compareModels(prompt) of new ModelService(s), up to
\* Promise.all: reading this.settings.gguf.ggufPath throws when the
\* settings have no gguf entry, after the other calls have been pushed
legacyCompareModels(s, prompt) ==
    LET list == LegacyList(s)
        invoked == InvokedAtStart(list, Len(list))
        throws == "gguf" \notin s
    IN  /\ run.pc = "idle" /\ legacy.pc = "idle"
        /\ legacy' = [pc |-> IF throws THEN "rejected" ELSE "awaiting",
                      prompt |-> prompt, settings |-> s, svcs |-> list,
                      calls |-> [i \in 1..Len(invoked) |->
                                   [kind |-> invoked[i], id |-> invoked[i],
                                    st |-> "sent", probe |-> NoReply,
                                    failed |-> FALSE, out |-> Pending]],
                      order |-> <<>>, responses |-> <<>>,
                      thrown |-> IF throws THEN MsgType ELSE Absent]
        /\ UNCHANGED <<configs, services, run, adapter, others>>

\* the request of a call method of the legacy run settles
LegacyCallSettle(i, reply) ==
    /\ i \in 1..Len(legacy.calls)
    /\ legacy.calls[i].st = "sent"
    /\ legacy' = [legacy EXCEPT !.calls[i].st = "done",
                                !.calls[i].failed = CallFailed(reply),
                                !.calls[i].out =
                                   LegacyCall(legacy.calls[i].kind,
                                              legacy.prompt, reply),
                                !.order = Append(@, i)]
    /\ UNCHANGED <<configs, services, run, adapter, others>>

\* `return Promise.all(promises)` settles; the call methods never reject
LegacyResolve ==
    /\ legacy.pc = "awaiting"
    /\ \A i \in 1..Len(legacy.calls) : legacy.calls[i].st = "done"
    /\ legacy' = [legacy EXCEPT !.pc = "resolved",
                     !.responses = CollectResponses(legacy.calls, legacy.order)]
    /\ UNCHANGED <<configs, services, run, adapter, others>>

\* the legacy caller has taken the outcome of the run
LegacyTakeResult ==
    /\ legacy.pc \in {"resolved", "rejected"}
    /\ legacy' = IdleLegacy
    /\ UNCHANGED <<configs, services, run, adapter, others>>

\* the caller has taken the outcome of the run (the result or the
\* rejection) and is free to call the service again
TakeResult ==
    /\ run.pc \in {"resolved", "rejected"}
    /\ run' = IdleRun
    /\ UNCHANGED <<configs, services, legacy, adapter, others>>

\* Spec follows a caller that uses the service sequentially: it calls
\* updateConfigs and compareModels only when no run is outstanding
CallerIdle == run.pc = "idle" /\ legacy.pc = "idle"

CallerUpdatesConfigs == \E c \in ConfigChoices : CallerIdle /\ updateConfigs(c)

CallerCompares == \E p \in Prompts : compareModels(p)

NetworkAnswersProbe ==
    \E i \in DOMAIN run.calls : \E probe \in ProbeReplies : ProbeSettle(i, probe)

NetworkAnswersCall ==
    \E i \in DOMAIN run.calls :
        \E reply \in RunReplies(run.calls[i].kind) : CallSettle(i, reply)

\* ModelService and ComparisonService share no state, so the specification
\* follows them one at a time: the legacy service is exercised while the
\* ComparisonService has no configuration
LegacyCallerCompares ==
    \E s \in SettingsChoices : \E p \in Prompts :
        configs = EmptyConfigs /\ legacyCompareModels(s, p)

NetworkAnswersLegacyCall ==
    \E i \in DOMAIN legacy.calls :
        \E reply \in RunReplies(legacy.calls[i].kind) : LegacyCallSettle(i, reply)

Next ==
    \/ CallerUpdatesConfigs
    \/ CallerCompares
    \/ NetworkAnswersProbe
    \/ NetworkAnswersCall
    \/ Resolve
    \/ TakeResult
    \/ LegacyCallerCompares
    \/ NetworkAnswersLegacyCall
    \/ LegacyResolve
    \/ LegacyTakeResult

Spec == Init /\ [][Next]_vars

(***************************************************************************)
(* One adapter called on its own: the generate operation of a service      *)
(* class (generateResponse; generateCompletion for OllamaService) or a     *)
(* call method of the legacy ModelService.                                 *)
(***************************************************************************)
AdapterKinds == {"openai", "anthropic", "ollama", "gguf"}

AdapterId == "cfg-1"

\* the generate operation of the adapter, applied to what the network gave
Generate(api, kind, model, prompt, probe, reply) ==
    IF api = "legacy" THEN LegacyCall(kind, prompt, reply)
    ELSE IF kind = "ollama" THEN OllamaGenerateCompletion(AdapterId, prompt, reply)
    ELSE GenerateResponse(kind, AdapterId, model, prompt, probe, reply)

\* the operation is invoked and runs up to its first fetch
AdapterCall(api, kind, model, prompt) ==
    /\ adapter.st \in {"idle", "settled"}
    /\ adapter' = [api |-> api, kind |-> kind, model |-> model,
                   st |-> IF api = "service" /\ kind = "gguf"
                            THEN "probe" ELSE "sent",
                   prompt |-> prompt, probe |-> NoReply, reply |-> NoReply,
                   fetches |-> 1, out |-> Pending]
    /\ UNCHANGED <<configs, services, run, legacy, others>>

\* the health probe of GGUFService.generateResponse settles
AdapterProbeSettle(probe) ==
    /\ adapter.st = "probe"
    /\ IF isServerRunning(probe)
         THEN adapter' = [adapter EXCEPT !.st = "sent", !.probe = probe,
                                         !.fetches = @ + 1]
         ELSE adapter' = [adapter EXCEPT !.st = "settled", !.probe = probe,
                             !.out = Generate(adapter.api, adapter.kind,
                                         adapter.model, adapter.prompt,
                                         probe, NoReply)]
    /\ UNCHANGED <<configs, services, run, legacy, others>>

\* the request of the operation settles and the operation finishes
AdapterSettle(reply) ==
    /\ adapter.st = "sent"
    /\ adapter' = [adapter EXCEPT !.st = "settled", !.reply = reply,
                      !.out = Generate(adapter.api, adapter.kind,
                                  adapter.model, adapter.prompt,
                                  adapter.probe, reply)]
    /\ UNCHANGED <<configs, services, run, legacy, others>>

\* the price tables are read by OpenAIService and AnthropicService only
ModelNamesOf(kind) ==
    IF kind \in {"openai", "anthropic"} THEN ModelNames ELSE {Undefined}

CallService ==
    \E k \in AdapterKinds : \E m \in ModelNamesOf(k) : \E p \in Prompts :
        AdapterCall("service", k, m, p)

CallLegacy ==
    \E k \in LegacyKinds : \E p \in Prompts :
        AdapterCall("legacy", k, Undefined, p)

AnswerAdapterProbe == \E probe \in ProbeReplies : AdapterProbeSettle(probe)

AnswerAdapter == \E reply \in Replies(adapter.kind) : AdapterSettle(reply)

NextAdapter ==
    \/ CallService
    \/ CallLegacy
    \/ AnswerAdapterProbe
    \/ AnswerAdapter

SpecAdapter == Init /\ [][NextAdapter]_vars

(***************************************************************************)
(* validateConnections, with updateConfigs free to run while it awaits.    *)
(***************************************************************************)
\* validateConnections(), up to its first await
validateConnections ==
    LET k == NextLoop(services, 1)
    IN  /\ validate.pc = "idle"
        /\ validate' =
              [pc |-> IF k > Len(ServiceKinds) THEN "resolved" ELSE "awaiting",
               enabled |-> EnabledIds(configs),
               start |-> ServiceList(services),
               k |-> k,
               list |-> LoopArray(services, ServiceList(services), k),
               i |-> 1, results |-> <<>>]
        /\ UNCHANGED <<configs, services, run, legacy, adapter, reentry, settings,
                 pages>>

\* the awaited probe settles: the entry is stored and the function runs on
\* to the next await, or returns
ValidateProbeSettle(reply) ==
    LET a == validate.list[validate.i]
        results == Append(validate.results, ResultEntry(a, reply))
        k == NextLoop(services, validate.k + 1)
    IN  /\ validate.pc = "awaiting"
        /\ IF validate.i < Len(validate.list)
             THEN validate' = [validate EXCEPT !.i = @ + 1,
                                               !.results = results]
             ELSE validate' =
                    [validate EXCEPT
                       !.pc = IF k > Len(ServiceKinds) THEN "resolved"
                                                       ELSE "awaiting",
                       !.k = k,
                       !.list = LoopArray(services, validate.start, k),
                       !.i = 1,
                       !.results = results]
        /\ UNCHANGED <<configs, services, run, legacy, adapter, reentry, settings,
                 pages>>

\* the caller has taken the mapping
ValidateTakeResult ==
    /\ validate.pc = "resolved"
    /\ validate' = IdleValidate
    /\ UNCHANGED <<configs, services, run, legacy, adapter, reentry, settings,
                 pages>>

\* the configurations handed to an updateConfigs call that is made while a
\* validateConnections run is outstanding: at most one config, enabled
MidRunChoices ==
    {ConfigsOf(sl) : sl \in {x \in Slots : Len(x) <= 1 /\ \A j \in DOMAIN x : x[j][2]}}

CallerUpdatesBetweenRuns ==
    \E c \in ConfigChoices : validate.pc = "idle" /\ updateConfigs(c)

CallerUpdatesMidRun ==
    \E c \in MidRunChoices : validate.pc = "awaiting" /\ updateConfigs(c)

CallerValidates == validateConnections

NetworkAnswersValidate ==
    /\ validate.pc = "awaiting"
    /\ \E reply \in ValidateReplies(validate.list[validate.i].kind) :
          ValidateProbeSettle(reply)

NextValidate ==
    \/ CallerUpdatesBetweenRuns
    \/ CallerUpdatesMidRun
    \/ CallerValidates
    \/ NetworkAnswersValidate
    \/ ValidateTakeResult

SpecValidate == Init /\ [][NextValidate]_vars

(***************************************************************************)
(* Two callers of compareModels whose runs may overlap.                    *)
(***************************************************************************)
\* compareModels(prompt) of the caller r, up to its await
reCompareModels(r, prompt) ==
    LET list == ServiceList(services)
        invoked == InvokedAtStart(list, FirstThrowing(list, 1) - 1)
        throws == FirstThrowing(list, 1) <= Len(list)
    IN  /\ reentry.runs[r].pc = "idle"
        /\ reentry' = [reentry EXCEPT !.runs[r] =
              [pc |-> IF throws THEN "rejected" ELSE "awaiting",
               prompt |-> prompt, svcs |-> list,
               calls |-> [i \in 1..Len(invoked) |-> SlotCall(invoked[i], prompt)],
               result |-> IdleSlot.result]]
        /\ UNCHANGED <<configs, services, run, legacy, adapter, validate, settings,
                 pages>>

\* the health probe of a GGUF call of run r settles
reProbeSettle(r, i, probe) ==
    /\ i \in 1..Len(reentry.runs[r].calls)
    /\ reentry.runs[r].calls[i].st = "probe"
    /\ reentry' =
          IF isServerRunning(probe)
            THEN [reentry EXCEPT !.runs[r].calls[i].st = "sent",
                                 !.runs[r].calls[i].probe = probe]
            ELSE [reentry EXCEPT
                    !.runs[r].calls[i].st = "done",
                    !.runs[r].calls[i].probe = probe,
                    !.runs[r].calls[i].out =
                       GenerateResponse(reentry.runs[r].calls[i].kind,
                           reentry.runs[r].calls[i].id, Undefined,
                           reentry.runs[r].calls[i].prompt, probe, NoReply)]
    /\ UNCHANGED <<configs, services, run, legacy, adapter, validate, settings,
                 pages>>

\* the generation request of a call of run r settles; an OpenAIService
\* stores the rate limits of a response with a success status
reCallSettle(r, i, reply) ==
    LET call == reentry.runs[r].calls[i]
        writes == call.kind = "openai" /\ reply.net = "ok" /\ reply.ok
    IN  /\ i \in 1..Len(reentry.runs[r].calls)
        /\ call.st = "sent"
        /\ reentry' =
              [reentry EXCEPT
                 !.runs[r].calls[i].st = "done",
                 !.runs[r].calls[i].wrote = writes,
                 !.runs[r].calls[i].out =
                    GenerateResponse(call.kind, call.id, Undefined,
                                     call.prompt, call.probe, reply),
                 !.lastRateLimit =
                    IF writes THEN updateRateLimits(@, call.id, r) ELSE @]
        /\ UNCHANGED <<configs, services, run, legacy, adapter, validate, settings,
                 pages>>

\* the continuation of `await Promise.all(promises)` of run r
reResolve(r) ==
    LET calls == reentry.runs[r].calls
    IN  /\ reentry.runs[r].pc = "awaiting"
        /\ \A i \in 1..Len(calls) : calls[i].st = "done"
        /\ reentry' = [reentry EXCEPT
              !.runs[r].pc = "resolved",
              !.runs[r].result =
                 [prompt |-> reentry.runs[r].prompt,
                  responses |-> CollectResponses(calls, <<>>)]]
        /\ UNCHANGED <<configs, services, run, legacy, adapter, validate, settings,
                 pages>>

\* the caller r has taken the outcome of its run
reTakeResult(r) ==
    /\ reentry.runs[r].pc \in {"resolved", "rejected"}
    /\ reentry' = [reentry EXCEPT !.runs[r] = IdleSlot]
    /\ UNCHANGED <<configs, services, run, legacy, adapter, validate, settings,
                 pages>>

\* the configurations of this specification: every config enabled
ReentryChoices ==
    {c \in ConfigChoices :
        \A k \in Kinds : \A j \in 1..Len(c[k]) : c[k][j].enabled}

NoRunOutstanding == \A r \in Callers : reentry.runs[r].pc = "idle"

CallerUpdatesWhenQuiet ==
    \E c \in ReentryChoices : NoRunOutstanding /\ updateConfigs(c)

\* the second caller starts its run while the first caller's run is
\* outstanding
FirstCallerCompares == \E p \in ReentryPrompts : reCompareModels(1, p)

SecondCallerCompares ==
    \E p \in ReentryPrompts :
        reentry.runs[1].pc = "awaiting" /\ reCompareModels(2, p)

NetworkAnswersSlotProbe ==
    \E r \in Callers : \E i \in DOMAIN reentry.runs[r].calls :
        \E probe \in ProbeReplies : reProbeSettle(r, i, probe)

NetworkAnswersSlotCall ==
    \E r \in Callers : \E i \in DOMAIN reentry.runs[r].calls :
        \E reply \in ReentryReplies(reentry.runs[r].calls[i].kind) :
            reCallSettle(r, i, reply)

SlotResolves == \E r \in Callers : reResolve(r)

SlotTakesResult == \E r \in Callers : reTakeResult(r)

NextReentry ==
    \/ CallerUpdatesWhenQuiet
    \/ FirstCallerCompares
    \/ SecondCallerCompares
    \/ NetworkAnswersSlotProbe
    \/ NetworkAnswersSlotCall
    \/ SlotResolves
    \/ SlotTakesResult

SpecReentry == Init /\ [][NextReentry]_vars

(***************************************************************************)
(* The settings page: the OpenAI connection handlers, each ending in       *)
(* saveConfigs, and a reload of the page.                                  *)
(***************************************************************************)
\* a save that would update the React state and leave localStorage alone
setConfigsOnly(newConfigs) ==
    [settings EXCEPT !.pc = "saved",
                     !.configs = newConfigs,
                     !.written = newConfigs]

\* saveConfigs(newConfigs): setConfigs and localStorage.setItem
saveConfigs(newConfigs) ==
    [settings EXCEPT !.pc = "saved",
                     !.configs = newConfigs,
                     !.written = newConfigs,
                     !.stored = [present |-> TRUE,
                                 doc |-> StringifyConfigs(newConfigs)]]

\* an id generator that would hand out the same id again
ReusedUuid == "uuid-1"

NextUuid == "uuid-" \o Digit[settings.uuids + 1]

\* the handler that ran last and what it was called with
Op(name, kind, id) == [name |-> name, kind |-> kind, id |-> id]

\* the form is submitted for a new connection: handleAddOpenAI
handleAddOpenAI(form) ==
    /\ settings.uuids < MaxConnections
    /\ LET config == handleSubmit(<<>>, form, NextUuid)
       IN  settings' =
             [saveConfigs([settings.configs EXCEPT
                              !["openai"] = Append(@, config)])
                EXCEPT !.uuids = @ + 1,
                       !.op = Op("add", "openai", Read(config, "id").v)]
    /\ UNCHANGED <<configs, services, run, legacy, adapter, validate, reentry,
                 pages>>

\* the form is submitted for the j-th connection: handleEditOpenAI
handleEditOpenAI(j, form) ==
    /\ j \in 1..Len(settings.configs["openai"])
    /\ LET old == settings.configs["openai"][j]
           connection == handleSubmit(old, form, NextUuid)
       IN  settings' =
             [saveConfigs([settings.configs EXCEPT
                !["openai"] = [i \in 1..Len(@) |->
                    IF Read(@[i], "id") = Read(connection, "id")
                      THEN connection ELSE @[i]]])
                EXCEPT !.op = Op("edit", "openai", Read(old, "id").v)]
    /\ UNCHANGED <<configs, services, run, legacy, adapter, validate, reentry,
                 pages>>

\* the switch of the j-th connection is flipped: handleToggleOpenAI
handleToggleOpenAI(j, enabled) ==
    /\ j \in 1..Len(settings.configs["openai"])
    /\ LET id == Read(settings.configs["openai"][j], "id")
       IN  settings' =
             [saveConfigs([settings.configs EXCEPT
                !["openai"] = [i \in 1..Len(@) |->
                    IF Read(@[i], "id") = id
                      THEN Assign(@[i], "enabled", JsBool(enabled))
                      ELSE @[i]]])
                EXCEPT !.op = Op("toggle", "openai", id.v)]
    /\ UNCHANGED <<configs, services, run, legacy, adapter, validate, reentry,
                 pages>>

\* a delete that would keep the connection with the id and drop the rest
handleDeleteOthersOpenAI(j) ==
    /\ j \in 1..Len(settings.configs["openai"])
    /\ LET id == Read(settings.configs["openai"][j], "id")
       IN  settings' =
             [saveConfigs([settings.configs EXCEPT
                !["openai"] = SelectSeq(@, LAMBDA c : Read(c, "id") = id)])
                EXCEPT !.op = Op("delete", "openai", id.v)]
    /\ UNCHANGED <<configs, services, run, legacy, adapter, validate, reentry,
                 pages>>

\* the j-th connection is deleted: handleDeleteOpenAI
handleDeleteOpenAI(j) ==
    /\ j \in 1..Len(settings.configs["openai"])
    /\ LET id == Read(settings.configs["openai"][j], "id")
       IN  settings' =
             [saveConfigs([settings.configs EXCEPT
                !["openai"] = SelectSeq(@, LAMBDA c : Read(c, "id") # id)])
                EXCEPT !.op = Op("delete", "openai", id.v)]
    /\ UNCHANGED <<configs, services, run, legacy, adapter, validate, reentry,
                 pages>>

\* the Ollama form is submitted for a new connection: handleAddOllama
handleAddOllama(form) ==
    /\ settings.uuids < MaxConnections
    /\ LET config == ollamaSubmit(<<>>, form, NextUuid)
       IN  settings' =
             [saveConfigs([settings.configs EXCEPT
                              !["ollama"] = Append(@, config)])
                EXCEPT !.uuids = @ + 1,
                       !.op = Op("add", "ollama", Read(config, "id").v)]
    /\ UNCHANGED <<configs, services, run, legacy, adapter, validate, reentry,
                 pages>>

\* the Ollama form is submitted for the j-th connection: handleEditOllama
handleEditOllama(j, form) ==
    /\ j \in 1..Len(settings.configs["ollama"])
    /\ LET old == settings.configs["ollama"][j]
           connection == ollamaSubmit(old, form, NextUuid)
       IN  settings' =
             [saveConfigs([settings.configs EXCEPT
                !["ollama"] = [i \in 1..Len(@) |->
                    IF Read(@[i], "id") = Read(connection, "id")
                      THEN connection ELSE @[i]]])
                EXCEPT !.op = Op("edit", "ollama", Read(old, "id").v)]
    /\ UNCHANGED <<configs, services, run, legacy, adapter, validate, reentry,
                 pages>>

\* handleToggleOllama
handleToggleOllama(j, enabled) ==
    /\ j \in 1..Len(settings.configs["ollama"])
    /\ LET id == Read(settings.configs["ollama"][j], "id")
       IN  settings' =
             [saveConfigs([settings.configs EXCEPT
                !["ollama"] = [i \in 1..Len(@) |->
                    IF Read(@[i], "id") = id
                      THEN Assign(@[i], "enabled", JsBool(enabled))
                      ELSE @[i]]])
                EXCEPT !.op = Op("toggle", "ollama", id.v)]
    /\ UNCHANGED <<configs, services, run, legacy, adapter, validate, reentry,
                 pages>>

\* handleDeleteOllama
handleDeleteOllama(j) ==
    /\ j \in 1..Len(settings.configs["ollama"])
    /\ LET id == Read(settings.configs["ollama"][j], "id")
       IN  settings' =
             [saveConfigs([settings.configs EXCEPT
                !["ollama"] = SelectSeq(@, LAMBDA c : Read(c, "id") # id)])
                EXCEPT !.op = Op("delete", "ollama", id.v)]
    /\ UNCHANGED <<configs, services, run, legacy, adapter, validate, reentry,
                 pages>>

\* the page is loaded again: the configs state is initialised from
\* localStorage
ReloadSettings ==
    /\ settings.pc = "saved"
    /\ settings' = [settings EXCEPT
          !.pc = "reloaded",
          !.op = Op("reload", "none", ""),
          !.configs = IF settings.stored.present
                        THEN LoadConfigs(settings.stored.doc)
                        ELSE EmptyConfigs]
    /\ UNCHANGED <<configs, services, run, legacy, adapter, validate, reentry,
                 pages>>

UserAddsConnection == \E form \in FormInputs : handleAddOpenAI(form)

UserEditsConnection ==
    \E j \in 1..MaxConnections : \E form \in FormInputs :
        handleEditOpenAI(j, form)

UserTogglesConnection ==
    \E j \in 1..MaxConnections : \E enabled \in BOOLEAN :
        handleToggleOpenAI(j, enabled)

UserDeletesConnection == \E j \in 1..MaxConnections : handleDeleteOpenAI(j)

UserAddsOllama == \E form \in OllamaFormInputs : handleAddOllama(form)

UserEditsOllama ==
    \E j \in 1..MaxConnections : \E form \in OllamaFormInputs :
        handleEditOllama(j, form)

UserTogglesOllama ==
    \E j \in 1..MaxConnections : \E enabled \in BOOLEAN :
        handleToggleOllama(j, enabled)

UserDeletesOllama == \E j \in 1..MaxConnections : handleDeleteOllama(j)

NextSettings ==
    \/ UserAddsConnection
    \/ UserEditsConnection
    \/ UserTogglesConnection
    \/ UserDeletesConnection
    \/ UserAddsOllama
    \/ UserEditsOllama
    \/ UserTogglesOllama
    \/ UserDeletesOllama
    \/ ReloadSettings

SpecSettings == Init /\ [][NextSettings]_vars

(***************************************************************************)
(* The OpenAI connection form (specification SpecForm).                    *)
(***************************************************************************)
\* loadModels up to its await of service.listModels()
loadModels ==
    /\ connForm.list.st # "sent"
    /\ connForm' = [connForm EXCEPT !.isLoading = TRUE,
                            !.list = [IdleRequest EXCEPT !.st = "sent"]]
    /\ UNCHANGED <<configs, services, run, legacy, adapter, validate, reentry,
                   settings, dashboard>>

\* GET /models of listModels is answered and loadModels runs to its end
loadModelsSettle(reply) ==
    /\ connForm.list.st = "sent"
    /\ LET out == OpenAIListModels(reply)
       IN  connForm' = [connForm EXCEPT
             !.list = [st |-> "settled", reply |-> reply, out |-> out],
             !.availableModels =
                IF out.settled = "resolved" THEN out.value ELSE @,
             !.toast =
                IF out.settled = "resolved" THEN @ ELSE "Error Loading Models",
             !.isLoading = FALSE]
    /\ UNCHANGED <<configs, services, run, legacy, adapter, validate, reentry,
                   settings, dashboard>>

\* testConnection of the form up to its await of service.testConnection()
testConnection ==
    /\ connForm.test.st # "sent"
    /\ connForm' = [connForm EXCEPT !.isTestingConnection = TRUE,
                            !.test = [IdleRequest EXCEPT !.st = "sent"]]
    /\ UNCHANGED <<configs, services, run, legacy, adapter, validate, reentry,
                   settings, dashboard>>

\* GET /models of testConnection is answered and the handler runs to its
\* end
testConnectionSettle(reply) ==
    /\ connForm.test.st = "sent"
    /\ LET out == OpenAITestConnection(reply)
       IN  connForm' = [connForm EXCEPT
             !.test = [st |-> "settled", reply |-> reply, out |-> out],
             !.toast = IF out.settled = "resolved"
                         THEN "Connection Successful"
                         ELSE "Connection Failed",
             !.isTestingConnection = FALSE]
    /\ UNCHANGED <<configs, services, run, legacy, adapter, validate, reentry,
                   settings, dashboard>>

NetworkAnswersListModels == \E reply \in ModelsReplies : loadModelsSettle(reply)

NetworkAnswersTestConnection ==
    \E reply \in ModelsReplies : testConnectionSettle(reply)

NextForm ==
    \/ loadModels
    \/ testConnection
    \/ NetworkAnswersListModels
    \/ NetworkAnswersTestConnection

SpecForm == Init /\ [][NextForm]_vars

(***************************************************************************)
(* The comparison dashboard (specification SpecDashboard).                 *)
(***************************************************************************)
DashboardFrame ==
    UNCHANGED <<configs, services, run, legacy, adapter, validate, reentry,
                settings, connForm>>

\* the page mounts and reads the stored connections
mountDashboard(c) ==
    /\ dashboard.pc = "unmounted"
    /\ dashboard' = [dashboard EXCEPT !.pc = "idle", !.configs = c]
    /\ DashboardFrame

\* onCheckedChange of the checkbox of an enabled model
onCheckedChange(modelId) ==
    /\ dashboard.pc # "unmounted"
    /\ FindModel(dashboard.configs, modelId) # <<>>
    /\ LET checked == \A i \in 1..Len(dashboard.selectedModels) :
                          dashboard.selectedModels[i] # modelId
       IN  dashboard' = [dashboard EXCEPT !.selectedModels =
             IF checked THEN Append(@, modelId)
                        ELSE SelectSeq(@, LAMBDA id : id # modelId)]
    /\ DashboardFrame

\* the promise of one selected model up to its first await
StartCall(c, modelId) ==
    LET found == FindModel(c, modelId)
    IN  IF found = <<>> THEN [NoCall EXCEPT !.id = modelId]
        ELSE IF IsOllama(found[1])
          THEN [NoCall EXCEPT !.id = modelId, !.st = "sent"]
          ELSE [NoCall EXCEPT !.id = modelId]

\* the Compare button is clicked: handleCompare up to its await of
\* Promise.all.  The button is rendered while there are enabled models
\* and is disabled while isProcessing is true.
handleCompare(prompt) ==
    /\ dashboard.pc # "unmounted"
    /\ enabledModels(dashboard.configs) # <<>>
    /\ ~dashboard.isProcessing
    /\ dashboard.now < MaxCompares
    /\ IF Trim(prompt) = <<>>
         THEN dashboard' = [dashboard EXCEPT
                !.prompt = prompt,
                !.outcome = "blank",
                !.toasts = <<Toast("Error",
                               "Please enter a prompt to compare")>>]
         ELSE IF dashboard.selectedModels = <<>>
         THEN dashboard' = [dashboard EXCEPT
                !.prompt = prompt,
                !.outcome = "unselected",
                !.toasts = <<Toast("Error",
                    "Please select at least one model to compare")>>]
         ELSE dashboard' = [dashboard EXCEPT
                !.pc = "running",
                !.prompt = prompt,
                !.isProcessing = TRUE,
                !.inflight = @ + 1,
                !.now = @ + 1,
                !.outcome = "running",
                !.toasts = <<>>,
                !.results = <<>>,
                !.before = dashboard.performance,
                !.calls = [i \in 1..Len(dashboard.selectedModels) |->
                             StartCall(dashboard.configs,
                                       dashboard.selectedModels[i])]]
    /\ DashboardFrame

\* generateCompletion of the i-th selected model settles: the result is
\* built, or the catch raises the notification of the model
generateCompletionSettle(i, reply) ==
    /\ dashboard.pc = "running"
    /\ i \in 1..Len(dashboard.calls)
    /\ dashboard.calls[i].st = "sent"
    /\ LET model == FindModel(dashboard.configs, dashboard.calls[i].id)[1]
           out == OllamaGenerateCompletion(model.id, dashboard.prompt, reply)
       IN  IF out.settled = "resolved"
             THEN dashboard' = [dashboard EXCEPT
                    !.calls[i].st = "resolved",
                    !.calls[i].reply = reply,
                    !.calls[i].result =
                       ResultOf(model, dashboard.now, out.value.metrics)]
             ELSE dashboard' = [dashboard EXCEPT
                    !.calls[i].st = "rejected",
                    !.calls[i].reply = reply,
                    !.toasts = Append(@, Toast("Error with " \o model.name,
                                               out.thrown))]
    /\ DashboardFrame

\* (await Promise.all(promises)).filter(Boolean)
ResultsOf(calls) ==
    LET settled == SelectSeq(calls, LAMBDA c : c.st = "resolved")
    IN  [i \in 1..Len(settled) |-> settled[i].result]

\* a continuation that would leave isProcessing alone when the run throws
handleCompareWithoutFinally ==
    /\ dashboard.pc = "running"
    /\ \A i \in 1..Len(dashboard.calls) : dashboard.calls[i].st # "sent"
    /\ LET results == ResultsOf(dashboard.calls)
       IN  IF results = <<>>
             THEN dashboard' = [dashboard EXCEPT
                    !.pc = "idle",
                    !.outcome = "error",
                    !.toasts = Append(@, Toast("Error",
                                  "No successful model responses"))]
             ELSE dashboard' = [dashboard EXCEPT
                    !.pc = "idle",
                    !.inflight = @ - 1,
                    !.outcome = "recorded",
                    !.results = results,
                    !.performance = UpdatePerformance(@, results),
                    !.isProcessing = FALSE]
    /\ DashboardFrame

\* every promise has settled: handleCompare resumes after Promise.all,
\* throws when no result is left or records the results, and its finally
\* clears isProcessing
handleCompareResume ==
    /\ dashboard.pc = "running"
    /\ \A i \in 1..Len(dashboard.calls) : dashboard.calls[i].st # "sent"
    /\ LET results == ResultsOf(dashboard.calls)
       IN  IF results = <<>>
             THEN dashboard' = [dashboard EXCEPT
                    !.pc = "idle",
                    !.inflight = @ - 1,
                    !.outcome = "error",
                    !.toasts = Append(@, Toast("Error",
                                  "No successful model responses")),
                    !.isProcessing = FALSE]
             ELSE dashboard' = [dashboard EXCEPT
                    !.pc = "idle",
                    !.inflight = @ - 1,
                    !.outcome = "recorded",
                    !.results = results,
                    !.performance = UpdatePerformance(@, results),
                    !.isProcessing = FALSE]
    /\ DashboardFrame

\* what /api/generate is answered with: a network failure, a non-success
\* status, a complete payload
DashboardReplies ==
    {r \in RunReplies("ollama") : r.body \in {"none", "err_msg", "full"}}

PageMounts == \E c \in DashboardConfigChoices : mountDashboard(c)

UserTicksModel == \E modelId \in DashboardIds : onCheckedChange(modelId)

\* what the textarea holds at the click: blanks only, or a prompt
DashboardPrompts == {p \in Prompts : p # <<>>}

UserClicksCompare == \E prompt \in DashboardPrompts : handleCompare(prompt)

NetworkAnswersCompletion ==
    \E i \in 1..Cardinality(DashboardIds) :
        \E reply \in DashboardReplies : generateCompletionSettle(i, reply)

NextDashboard ==
    \/ PageMounts
    \/ UserTicksModel
    \/ UserClicksCompare
    \/ NetworkAnswersCompletion
    \/ handleCompareResume

SpecDashboard == Init /\ [][NextDashboard]_vars

\* the event loop resumes handleCompare once Promise.all has settled
SpecDashboardFair == SpecDashboard /\ WF_vars(handleCompareResume)

(***************************************************************************)
(* The performance history under a sequence of updates (specification      *)
(* SpecHistory).                                                           *)
(***************************************************************************)
HistoryModels ==
    <<Connection("ollama-1", "local", "ollama", TRUE),
      Connection("ollama-2", "remote", "ollama", TRUE)>>

\* the results of a run at time `now`: of both models or of one
ResultChoices(now) ==
    LET r(j) == ResultOf(HistoryModels[j], now, ZeroMetrics)
    IN  {<<r(1), r(2)>>, <<r(1)>>, <<r(2)>>}

\* setPerformance(prev => ...) with the results of a run
setPerformance(results) ==
    /\ dashboard.now < MaxUpdates
    /\ Len(results) = 1 => dashboard.partial < MaxPartial
    /\ dashboard' = [dashboard EXCEPT
          !.now = @ + 1,
          !.partial = IF Len(results) = 1 THEN @ + 1 ELSE @,
          !.results = results,
          !.outcome = "recorded",
          !.before = dashboard.performance,
          !.performance = UpdatePerformance(@, results)]
    /\ DashboardFrame

RunRecordsResults ==
    \E results \in ResultChoices(dashboard.now + 1) : setPerformance(results)

NextHistory == RunRecordsResults

SpecHistory == Init /\ [][NextHistory]_vars

\* the adapter's call failed: the probe found no server, or the request
\* failed, was answered with a non-success status or a malformed payload
AdapterFailed ==
    \/ adapter.probe.net # "none" /\ ~isServerRunning(adapter.probe)
    \/ adapter.reply.net # "none" /\ CallFailed(adapter.reply)

\* the record has the fields of a ModelResponse (the legacy one has no id)
IsModelResponse(r) == r.provider # Absent /\ r.text # Absent

(***************************************************************************)
(* Properties of a comparison run (specification Spec).                    *)
(***************************************************************************)
RunFinished == run.pc \in {"resolved", "rejected"}

ResponseIds == {run.responses[i].id : i \in 1..Len(run.responses)}

\* C1: a finished compareModels run has resolved with exactly one
\* ModelResponse per configuration that was enabled when it started, over
\* all six provider kinds: none missing, none twice.
C1_OneResponsePerEnabledConfig ==
    RunFinished =>
        /\ run.pc = "resolved"
        /\ ResponseIds = run.enabled
        /\ Len(run.responses) = Cardinality(run.enabled)

\* C2: compareModels never rejects, whatever the enabled configurations
\* and whatever fails; the result holds a response for every adapter, the
\* failed ones carrying an error.
C2_NeverRejects ==
    /\ run.pc # "rejected"
    /\ run.pc = "resolved" =>
          /\ Len(run.responses) = Len(run.svcs)
          /\ \A i \in 1..Len(run.calls) :
                run.calls[i].failed => HasError(run.responses[i])

\* C4: a run started with an empty or whitespace-only prompt issues no
\* network call, produces no ModelResponse and ends in the user-input error.
C4_BlankPromptIssuesNoCall ==
    (run.pc # "idle" /\ Trim(run.prompt) = <<>>) =>
        /\ run.fetches = 0
        /\ run.responses = <<>>
        /\ RunFinished => run.pc = "rejected"

\* C5: a run started with zero enabled configurations never resolves with
\* a normal ComparisonResult (one with an empty responses sequence).
C5_NoEnabledConfigIsAnError ==
    (run.pc # "idle" /\ run.enabled = {}) => run.pc # "resolved"

\* every adapter call of the run has failed
AllCallsFailed ==
    /\ run.calls # <<>>
    /\ \A i \in 1..Len(run.calls) :
          run.calls[i].st = "done" /\ run.calls[i].failed

\* C6: a run in which every adapter call failed does not resolve with a
\* normal ComparisonResult.
C6_TotalFailureIsAnError == AllCallsFailed => run.pc # "resolved"

FailedResponses == SelectSeq(run.responses, LAMBDA r : r.error # Absent)

\* C11: the errors list of a resolved run has exactly one entry per
\* response whose error field is present, in the order of the responses
\* and naming that response's provider and error; the list is absent, not
\* empty, when no response carries an error.
C11_ErrorsListMatchesFailedResponses ==
    run.pc = "resolved" =>
        /\ run.errors.present <=> FailedResponses # <<>>
        /\ Len(run.errors.list) = Len(FailedResponses)
        /\ \A i \in 1..Len(FailedResponses) :
              run.errors.list[i] =
                  <<FailedResponses[i].provider, FailedResponses[i].error>>

\* a resolved run with one failed and one successful response
C11_Witness ==
    /\ run.pc = "resolved"
    /\ run.errors.present
    /\ Len(run.errors.list) = 1
    /\ Len(run.responses) = 2

\* a resolved run none of whose responses failed: the list is absent
C11_NoFailureWitness ==
    /\ run.pc = "resolved"
    /\ run.responses # <<>>
    /\ ~run.errors.present

\* the calls of a run r cover every adapter (call method) of the run
AllInvoked(r) ==
    /\ Len(r.calls) = Len(r.svcs)
    /\ \A i \in 1..Len(r.svcs) : r.calls[i].st \in {"probe", "sent", "done"}

\* C8: while compareModels awaits (ComparisonService and ModelService
\* alike), every adapter call of the run has been launched; and once a call
\* of a run has settled no further call of that run is launched.
C8_AllLaunchedBeforeAwait ==
    /\ run.pc \in {"awaiting", "resolved"} => AllInvoked(run)
    /\ legacy.pc \in {"awaiting", "resolved"} => AllInvoked(legacy)
    /\ run.order # <<>> => Len(run.calls) = FirstThrowing(run.svcs, 1) - 1
    /\ legacy.order # <<>> => Len(legacy.calls) = Len(legacy.svcs)

\* the orchestrator awaits two or more calls, one settled, another not
C8_Witness ==
    /\ run.pc = "awaiting"
    /\ Len(run.calls) >= 2
    /\ \E i, j \in 1..Len(run.calls) :
          run.calls[i].st = "done" /\ run.calls[j].st # "done"

(***************************************************************************)
(* Properties of one adapter call (specification SpecAdapter).             *)
(***************************************************************************)
AdapterSettled == adapter.st = "settled"

\* C3: the generate operation of every service adapter resolves, whatever
\* the network did; it never rejects.
C3_GenerateNeverRejects ==
    (AdapterSettled /\ adapter.api = "service") =>
        adapter.out.settled = "resolved"

\* C9: the ModelResponse a service adapter produces for a failed call has
\* empty text, all-zero metrics and a non-empty error string.
C9_FailureGivesEmptyErrorResponse ==
    (/\ AdapterSettled
     /\ adapter.api = "service"
     /\ AdapterFailed
     /\ adapter.out.settled = "resolved"
     /\ IsModelResponse(adapter.out.value)) =>
        /\ adapter.out.value.text = ""
        /\ adapter.out.value.metrics = ZeroMetrics
        /\ HasError(adapter.out.value)

\* C10: in every ModelResponse an adapter (service or legacy) produces,
\* the error field is present if and only if the call failed.
C10_ErrorIffFailed ==
    (/\ AdapterSettled
     /\ adapter.out.settled = "resolved"
     /\ IsModelResponse(adapter.out.value)) =>
        (HasError(adapter.out.value) <=> AdapterFailed)

\* the adapter call resolved with a record that carries computed metrics
AdapterSucceeded ==
    /\ AdapterSettled
    /\ adapter.out.settled = "resolved"
    /\ ~HasError(adapter.out.value)

\* C14: the tokensPerSecond of every Metrics record an adapter produces
\* is a finite number that is not negative, and it is zero when the
\* elapsed time is zero.
C14_TokensPerSecondIsFinite ==
    (AdapterSettled /\ adapter.out.settled = "resolved") =>
        /\ adapter.out.value.metrics.tokensPerSecond.k = "num"
        /\ adapter.out.value.metrics.tokensPerSecond.v >= 0
        /\ (AdapterSucceeded /\ adapter.reply.elapsed = 0) =>
              adapter.out.value.metrics.tokensPerSecond = Num(0)

\* C17: a settled generate call of a service adapter has issued exactly
\* one outbound network request.
C17_OneRequestPerCall ==
    (AdapterSettled /\ adapter.api = "service") => adapter.fetches = 1

\* C19: for the Ollama adapter, tokensPerSecond is eval_count over
\* eval_duration in seconds when the payload carries both, and otherwise
\* the character-estimated token count over the wall-clock seconds; this
\* for the value generateCompletion returns and for calculateMetrics.
C19_OllamaTokensPerSecond ==
    (/\ AdapterSucceeded
     /\ adapter.api = "service"
     /\ adapter.kind = "ollama"
     /\ adapter.reply.elapsed # 0) =>
        LET expected ==
              IF adapter.reply.body # "no_counts"
                THEN JsDiv(Num(adapter.reply.tokens),
                           Num(adapter.reply.elapsed), 1000)
                ELSE JsDiv(Num(estimateTokenCount(adapter.reply.text)),
                           Num(adapter.reply.elapsed), 1000)
        IN  /\ adapter.out.value.metrics.tokensPerSecond = expected
            /\ calculateMetrics(adapter.reply) = expected

\* C20: for a GGUF adapter (GGUFService and ModelService.callGGUF),
\* tokensPerSecond is the payload's tokens_per_second when it is provided
\* and otherwise the estimated token count over the elapsed seconds.
C20_GGUFTokensPerSecond ==
    (/\ AdapterSucceeded
     /\ adapter.kind = "gguf"
     /\ adapter.reply.body = "full"
     /\ adapter.reply.elapsed # 0) =>
        adapter.out.value.metrics.tokensPerSecond =
            IF adapter.reply.tps # 0
              THEN Num(adapter.reply.tps)
              ELSE JsDiv(Num(estimateTokenCount(adapter.reply.text)),
                         Num(adapter.reply.elapsed), 1000)

\* the scenario of the specification: content "abcd" over 500 ms, no
\* tokens_per_second in the payload, gives 2 tokens per second
C20_Scenario ==
    (/\ AdapterSucceeded
     /\ adapter.api = "service"
     /\ adapter.kind = "gguf"
     /\ adapter.reply.body = "full"
     /\ adapter.reply.text = "abcd"
     /\ adapter.reply.elapsed = 500) =>
        adapter.out.value.metrics.tokensPerSecond = Num(2)

PricedKinds == {"openai", "anthropic"}

\* C21: the Metrics of a successful response carry a cost exactly when the
\* adapter is the OpenAI or the Anthropic one, and that cost is a defined
\* number whatever the model name is.
C21_CostOnlyForPricedAdapters ==
    (AdapterSucceeded /\ adapter.api = "service") =>
        LET cost == adapter.out.value.metrics.cost
        IN  /\ cost # AbsentNum <=> adapter.kind \in PricedKinds
            /\ adapter.kind \in PricedKinds => cost.k = "num"

\* the least c with 4 * c >= n
CeilOfQuarter(n) == CHOOSE c \in 0..n : 4 * c >= n /\ 4 * (c - 1) < n

C22_EmptyWitness ==
    /\ AdapterSucceeded
    /\ adapter.kind = "anthropic"
    /\ adapter.api = "service"
    /\ adapter.prompt = <<>>
    /\ adapter.out.value.metrics.promptTokens = Num(0)

(***************************************************************************)
(* Properties of the connection form's service calls (specification        *)
(* SpecForm).                                                              *)
(***************************************************************************)
\* the answer gives listModels nothing to read
ListUnreadable(reply) ==
    reply.net = "fail" \/ ~reply.ok \/ reply.body \in MalformedLists

ErrorMessages ==
    {MsgFetch, MsgSyntax, MsgType, MsgProvider, "OpenAI API error"}

\* C30: listModels of OpenAIService never rejects and resolves with the
\* built-in list after a network error, a non-success status or a
\* malformed body; testConnection resolves with success = true or rejects
\* with a message that begins with "Connection test failed: ", and never
\* resolves with success = false.
C30_ListResolvesTestNeverFalse ==
    /\ connForm.list.st = "settled" =>
          /\ connForm.list.out.settled = "resolved"
          /\ ListUnreadable(connForm.list.reply) =>
                connForm.list.out.value = BuiltInModels
    /\ connForm.test.st = "settled" =>
          \/ /\ connForm.test.out.settled = "resolved"
             /\ connForm.test.out.value.success
             /\ connForm.test.reply.net = "ok" /\ connForm.test.reply.ok
          \/ /\ connForm.test.out.settled = "rejected"
             /\ connForm.test.out.thrown \in
                   {"Connection test failed: " \o m : m \in ErrorMessages}

\* a listing answered with a body without the data property and a
\* connection test answered with a non-success status
C30_Witness ==
    /\ connForm.list.st = "settled"
    /\ connForm.list.reply.body = "no_data"
    /\ connForm.availableModels = BuiltInModels
    /\ connForm.test.st = "settled"
    /\ connForm.test.reply.net = "ok" /\ ~connForm.test.reply.ok
    /\ connForm.test.out.settled = "rejected"
    /\ connForm.toast = "Connection Failed"

(***************************************************************************)
(* Properties of the dashboard's handleCompare (specifications             *)
(* SpecDashboard, SpecDashboardFair and SpecHistory).                      *)
(***************************************************************************)
\* a run of handleCompare has passed the input checks and has ended
DashboardRunEnded == dashboard.outcome \in {"recorded", "error"}

CallsThat(st) ==
    {i \in 1..Len(dashboard.calls) : dashboard.calls[i].st = st}

\* C23: when some selected models fail and others succeed, handleCompare
\* raises one notification per failing model and records the results of
\* the others; when no selected model succeeds it raises a single
\* notification and leaves the performance history as it was.
C23_NotificationsPerFailure ==
    DashboardRunEnded =>
        LET failed == Cardinality(CallsThat("rejected"))
            succeeded == Cardinality(CallsThat("resolved"))
        IN  /\ (succeeded > 0 /\ failed > 0) =>
                  /\ Len(dashboard.toasts) = failed
                  /\ \A i \in CallsThat("resolved") :
                        LET history ==
                              dashboard.performance[dashboard.calls[i].id]
                        IN  /\ history # <<>>
                            /\ history[Len(history)]
                                  = dashboard.calls[i].result
            /\ succeeded = 0 =>
                  /\ Len(dashboard.toasts) = 1
                  /\ dashboard.performance = dashboard.before

\* the toggle between "not yet set" and "set" of isProcessing happens in a
\* click whose prompt is not blank and whose selection is not empty
ProcessingStartsAfterChecks ==
    (~dashboard.isProcessing /\ dashboard'.isProcessing) =>
        /\ Trim(dashboard'.prompt) # <<>>
        /\ dashboard.selectedModels # <<>>

\* C24: isProcessing is true exactly while a run of handleCompare is in
\* flight, it is set only by a click that passed both input checks, no
\* two runs are in flight at once, and once every call of the run has
\* settled it becomes false again, whether the run recorded results or
\* ended in the error.
C24_ProcessingOnlyWhileInFlight ==
    /\ [](dashboard.isProcessing <=> dashboard.inflight = 1)
    /\ [](dashboard.inflight <= 1)
    /\ [][ProcessingStartsAfterChecks]_vars
    /\ ((dashboard.isProcessing /\ CallsThat("sent") = {})
          ~> ~dashboard.isProcessing)

\* a second run has ended in the error after one of its calls failed
C24_Witness ==
    /\ dashboard.now = 2
    /\ dashboard.outcome = "error"
    /\ CallsThat("rejected") # {}
    /\ ~dashboard.isProcessing

\* the results the last update carried for the model
AddedFor(id) == SelectSeq(dashboard'.results, LAMBDA r : r.modelId = id)

\* C25: every performance history holds at most 10 entries; an update
\* with a result for a model keeps the 9 most recent earlier entries of
\* that model in their order and puts the result last; the histories of
\* the models without a result stay as they were.
C25_HistoryKeepsLastTen ==
    [][ \A id \in DashboardIds :
          LET old == dashboard.performance[id]
              new == dashboard'.performance[id]
              kept == IF Len(old) < 9 THEN Len(old) ELSE 9
          IN  /\ Len(new) <= 10
              /\ AddedFor(id) = <<>> => new = old
              /\ AddedFor(id) # <<>> =>
                    /\ Len(new) = kept + 1
                    /\ new[Len(new)] = AddedFor(id)[1]
                    /\ \A k \in 1..kept : new[k] = old[Len(old) - kept + k]
      ]_vars

\* the history of one model has been cut to ten entries while the other
\* model, left out of two updates, has nine
C25_Witness ==
    /\ Len(dashboard.performance["ollama-1"]) = 10
    /\ dashboard.performance["ollama-1"][1].timestamp = 2
    /\ dashboard.performance["ollama-1"][10].timestamp = 11
    /\ Len(dashboard.performance["ollama-2"]) = 9

\* the selected model is enabled, of provider 'ollama', and its call
\* resolved
ResolvedOllama(i) ==
    LET found == FindModel(dashboard.configs, dashboard.calls[i].id)
    IN  /\ found # <<>>
        /\ found[1].provider = "ollama"
        /\ dashboard.calls[i].reply.net = "ok"
        /\ dashboard.calls[i].reply.ok
        /\ dashboard.calls[i].reply.body # "nojson"

\* C26: a selected model gets an entry in the performance history exactly
\* when it is enabled, its provider is 'ollama' and its generateCompletion
\* resolved; a run whose selected models are all of another provider ends
\* in the "No successful model responses" notification and records
\* nothing.
C26_OnlyResolvedOllamaContributes ==
    (DashboardRunEnded /\ dashboard.calls # <<>>) =>
        /\ \A i \in 1..Len(dashboard.calls) :
              LET id == dashboard.calls[i].id
              IN  dashboard.performance[id] # dashboard.before[id]
                    <=> ResolvedOllama(i)
        /\ (\A i \in 1..Len(dashboard.calls) :
               LET found == FindModel(dashboard.configs, dashboard.calls[i].id)
               IN  found = <<>> \/ found[1].provider # "ollama") =>
              /\ dashboard.outcome = "error"
              /\ dashboard.toasts =
                    <<Toast("Error", "No successful model responses")>>
              /\ dashboard.performance = dashboard.before

\* a run over an OpenAI connection and an Ollama connection of which the
\* second alone was recorded
C26_Witness ==
    /\ dashboard.outcome = "recorded"
    /\ Len(dashboard.calls) = 2
    /\ dashboard.calls[1].id = "openai-1"
    /\ dashboard.calls[2].id = "ollama-1"
    /\ dashboard.performance["openai-1"] = <<>>
    /\ Len(dashboard.performance["ollama-1"]) = 1

\* a run over connections without the provider 'ollama' ended in the error
C26_NoOllamaWitness ==
    /\ dashboard.outcome = "error"
    /\ Len(dashboard.calls) = 2
    /\ \A i \in 1..2 : dashboard.calls[i].st = "null"

(***************************************************************************)
(* Properties of validateConnections (specification SpecValidate).         *)
(***************************************************************************)
\* C12: validateConnections never rejects, and the boolean it stores for a
\* probed configuration is true exactly when the probe of that
\* configuration succeeded.
C12_ValueIffProbeSucceeded ==
    /\ validate.pc \in {"idle", "awaiting", "resolved"}
    /\ \A j \in 1..Len(validate.results) :
          validate.results[j].value <=> validate.results[j].live

\* C13: the mapping validateConnections returns has exactly one entry per
\* configuration that was enabled when it was called, over all provider
\* kinds, keyed by the configuration's id.
C13_OneEntryPerEnabledConfig ==
    validate.pc = "resolved" =>
        /\ {validate.results[j].key : j \in 1..Len(validate.results)}
              = validate.enabled
        /\ Len(validate.results) = Cardinality(validate.enabled)

\* C16: an updateConfigs call made while validateConnections is
\* outstanding does not change which configurations the run reports on:
\* the entries are those of the adapters the service held when the run
\* started.
C16_UpdateLeavesOutstandingRunAlone ==
    validate.pc = "resolved" =>
        /\ Len(validate.results) = Len(validate.start)
        /\ \A j \in 1..Len(validate.results) :
              validate.results[j].id = validate.start[j].id

(***************************************************************************)
(* Properties of the persisted configuration (specification SpecSettings). *)
(***************************************************************************)
\* the fields of a config the orchestrator uses
OrchestratorFields ==
    {"id", "enabled", "apiKey", "baseUrl", "modelName", "temperature",
     "maxTokens"}

\* C18: after a reload, every provider kind holds the configs that were
\* written, in the same order, each with the same enabled flag, id,
\* credential, endpoint, model and generation parameters.
C18_ReloadReproducesConfigs ==
    settings.pc = "reloaded" =>
        \A k \in Kinds :
            /\ Len(settings.configs[k]) = Len(settings.written[k])
            /\ \A j \in 1..Len(settings.written[k]) :
                  \A f \in OrchestratorFields :
                      Read(settings.configs[k][j], f)
                          = Read(settings.written[k][j], f)

\* two connections reloaded, one of them disabled and without endpoint
C18_Witness ==
    /\ settings.pc = "reloaded"
    /\ Len(settings.configs["openai"]) = 2
    /\ \E j \in 1..Len(settings.written["openai"]) :
          /\ Read(settings.written["openai"][j], "enabled") = JsBool(FALSE)
          /\ Read(settings.written["openai"][j], "baseUrl") = JsUndef
          /\ Len(settings.stored.doc["openai"][j])
                < Len(settings.written["openai"][j])

SettingsOps == {"add", "edit", "delete", "toggle"}

\* C27: after every add, edit, delete and toggle of the Settings page the
\* document stored under "model-settings" is the JSON serialization of the
\* configs the page holds in memory, and nothing is stored before the first
\* of them
C27_StoredIsSerializedConfigs ==
    /\ settings.stored.present =>
          settings.stored.doc = StringifyConfigs(settings.configs)
    /\ settings.op.name \in SettingsOps => settings.stored.present
    /\ ~settings.stored.present => settings.configs = EmptyConfigs

\* a toggle has just been saved with two connections of two kinds on the page
C27_Witness ==
    /\ settings.op.name = "toggle"
    /\ settings.stored.present
    /\ Len(settings.configs["openai"]) = 1
    /\ Len(settings.configs["ollama"]) = 1
    /\ Read(settings.configs["ollama"][1], "enabled") = JsBool(FALSE)

\* the property names of a config object
KeysOf(obj) == {obj[j][1] : j \in 1..Len(obj)}

\* two config objects agree on every property but `enabled`
SameButEnabled(a, b) ==
    /\ KeysOf(a) = KeysOf(b)
    /\ \A key \in KeysOf(a) \ {"enabled"} : Read(a, key) = Read(b, key)

IdOf(config) == Read(config, "id").v

UniqueIds(c) ==
    \A k \in Kinds :
        \A i, j \in 1..Len(c[k]) : IdOf(c[k][i]) = IdOf(c[k][j]) => i = j

\* C29: after every operation no two configs of one list share an id, and
\* an edit keeps the id and the enabled flag of the edited connection and
\* the length of its list
C29_IdsStayUnique ==
    [][ /\ UniqueIds(settings'.configs)
        /\ settings'.op.name = "edit" =>
              LET k == settings'.op.kind
              IN  /\ Len(settings'.configs[k]) = Len(settings.configs[k])
                  /\ \A i \in 1..Len(settings.configs[k]) :
                        /\ Read(settings'.configs[k][i], "id")
                              = Read(settings.configs[k][i], "id")
                        /\ Read(settings'.configs[k][i], "enabled")
                              = Read(settings.configs[k][i], "enabled")
      ]_vars

\* a disabled connection, second of two in its list, has just been edited
C29_Witness ==
    /\ settings.op = Op("edit", "openai", "uuid-2")
    /\ Len(settings.configs["openai"]) = 2
    /\ Read(settings.configs["openai"][2], "enabled") = JsBool(FALSE)
    /\ Read(settings.configs["openai"][2], "baseUrl") = JsStr("http://proxy")

(***************************************************************************)
(* Properties of overlapping runs (specification SpecReentry).             *)
(***************************************************************************)
\* C15: overlapping compareModels runs are independent: every call of a
\* run carries the run's own prompt, a resolved run returns its own prompt
\* with one response per adapter, and what a run has written to an adapter
\* instance is still what the instance holds while the run is not over
\* (no other run writes the same state).
C15_OverlappingRunsAreIndependent ==
    \A r \in Callers :
        LET rn == reentry.runs[r]
        IN  /\ \A i \in 1..Len(rn.calls) : rn.calls[i].prompt = rn.prompt
            /\ rn.pc = "resolved" =>
                  /\ rn.result.prompt = rn.prompt
                  /\ Len(rn.result.responses) = Len(rn.svcs)
            /\ \A i \in 1..Len(rn.calls) :
                  rn.calls[i].wrote =>
                      reentry.lastRateLimit[rn.calls[i].id].by = r

\* C15, the part that holds: the prompts and responses of overlapping
\* runs are never mixed up.
C15_PromptsAreNotMixedUp ==
    \A r \in Callers :
        LET rn == reentry.runs[r]
        IN  /\ \A i \in 1..Len(rn.calls) : rn.calls[i].prompt = rn.prompt
            /\ rn.pc = "resolved" =>
                  /\ rn.result.prompt = rn.prompt
                  /\ \A i \in 1..Len(rn.result.responses) :
                        rn.result.responses[i].id = rn.svcs[i].id

====
